---- MODULE Spec2Model ----
\* Model of the terminal-output lexer (src/lexers/LexTerminal.cxx).
\* Text is a sequence of character codes (ASCII); a position in a C string is a
\* 0-based offset, and reading the byte at the string's length yields the
\* terminating NUL (0).
EXTENDS Integers, Sequences, FiniteSets, TLC

VARIABLES doc, startPos, length, valueSeparate, escapeSequences,
          i, lineBuffer, sink, pc, ret,
          style, startValue, endPos,
          linePortion, startPortion, portionStyle,
          startSeq, prefix, pos,
          tokens, seq, result

vars == <<doc, startPos, length, valueSeparate, escapeSequences,
          i, lineBuffer, sink, pc, ret,
          style, startValue, endPos,
          linePortion, startPortion, portionStyle,
          startSeq, prefix, pos,
          tokens, seq, result>>

-----------------------------------------------------------------------------
\* Style categories (src/include/ExtraLexers.h)

wxSTC_TERMINAL_DEFAULT == 0
wxSTC_TERMINAL_PYTHON == 1
wxSTC_TERMINAL_GCC == 2
wxSTC_TERMINAL_MS == 3
wxSTC_TERMINAL_CMD == 4
wxSTC_TERMINAL_BORLAND == 5
wxSTC_TERMINAL_PERL == 6
wxSTC_TERMINAL_NET == 7
wxSTC_TERMINAL_LUA == 8
wxSTC_TERMINAL_CTAG == 9
wxSTC_TERMINAL_DIFF_CHANGED == 10
wxSTC_TERMINAL_DIFF_ADDITION == 11
wxSTC_TERMINAL_DIFF_DELETION == 12
wxSTC_TERMINAL_DIFF_MESSAGE == 13
wxSTC_TERMINAL_PHP == 14
wxSTC_TERMINAL_ELF == 15
wxSTC_TERMINAL_IFC == 16
wxSTC_TERMINAL_IFORT == 17
wxSTC_TERMINAL_ABSF == 18
wxSTC_TERMINAL_TIDY == 19
wxSTC_TERMINAL_JAVA_STACK == 20
wxSTC_TERMINAL_VALUE == 21
wxSTC_TERMINAL_GCC_INCLUDED_FROM == 22
wxSTC_TERMINAL_ESCSEQ == 23
wxSTC_TERMINAL_ESCSEQ_UNKNOWN == 24
wxSTC_TERMINAL_GCC_EXCERPT == 25
wxSTC_TERMINAL_BASH == 26
wxSTC_TERMINAL_ES_BLACK == 40
wxSTC_TERMINAL_ES_RED == 41
wxSTC_TERMINAL_ES_GREEN == 42
wxSTC_TERMINAL_ES_BROWN == 43
wxSTC_TERMINAL_ES_BLUE == 44
wxSTC_TERMINAL_ES_MAGENTA == 45
wxSTC_TERMINAL_ES_CYAN == 46
wxSTC_TERMINAL_ES_GRAY == 47
wxSTC_TERMINAL_ES_DARK_GRAY == 48
wxSTC_TERMINAL_ES_BRIGHT_RED == 49
wxSTC_TERMINAL_ES_BRIGHT_GREEN == 50
wxSTC_TERMINAL_ES_YELLOW == 51
wxSTC_TERMINAL_ES_BRIGHT_BLUE == 52
wxSTC_TERMINAL_ES_BRIGHT_MAGENTA == 53
wxSTC_TERMINAL_ES_BRIGHT_CYAN == 54
wxSTC_TERMINAL_ES_WHITE == 55
wxSTC_TERMINAL_GCC_WARNING == 56
wxSTC_TERMINAL_GCC_NOTE == 57

-----------------------------------------------------------------------------
\* Character codes of the character literals the lexer compares against

chNUL == 0
chTab == 9
chLF == 10
chCR == 13
chEsc == 27
chSpace == 32
chBang == 33
chDollar == 36
chLParen == 40
chRParen == 41
chPlus == 43
chComma == 44
chMinus == 45
chSlash == 47
chZero == 48
chOne == 49
chNine == 57
chColon == 58
chSemi == 59
chLess == 60
chGreater == 62
chAt == 64
chUpperA == 65
chUpperK == 75
chUpperZ == 90
chBackslash == 92
chCaret == 94
chLowerA == 97
chLowerM == 109
chLowerZ == 122
chPipe == 124
chTilde == 126

-----------------------------------------------------------------------------
\* C string primitives

Min(S) == CHOOSE x \in S : \A y \in S : x <= y

\* s[k] for a NUL-terminated buffer holding str, k a 0-based offset
CharAt(str, k) == IF k >= 0 /\ k < Len(str) THEN str[k + 1] ELSE chNUL

\* the tail of str that starts at 0-based offset k
From(str, k) == SubSeq(str, k + 1, Len(str))

\* Find returning the offset of the last occurrence
Find_Last(haystack, needle) ==
    LET hits == {p \in 0..(Len(haystack) - Len(needle)) :
                    SubSeq(haystack, p + 1, p + Len(needle)) = needle}
    IN IF hits = {} THEN -1 ELSE CHOOSE x \in hits : \A y \in hits : x >= y

\* strstr / std::string::find: 0-based offset of the first occurrence of
\* needle in haystack, or -1 when there is none
Find(haystack, needle) ==
    LET hits == {p \in 0..(Len(haystack) - Len(needle)) :
                    SubSeq(haystack, p + 1, p + Len(needle)) = needle}
    IN IF hits = {} THEN -1 ELSE Min(hits)

Contains(haystack, needle) == Find(haystack, needle) >= 0

\* strstart comparing the first character only
strstart_FirstChar(haystack, needle) ==
    /\ haystack # <<>>
    /\ needle # <<>>
    /\ haystack[1] = needle[1]

strstart(haystack, needle) ==
    /\ Len(haystack) >= Len(needle)
    /\ SubSeq(haystack, 1, Len(needle)) = needle

Is0To9(ch) == (ch >= chZero) /\ (ch <= chNine)

Is1To9(ch) == (ch >= chOne) /\ (ch <= chNine)

IsUpperOrLowerCase(ch) ==
    \/ (ch >= chUpperA /\ ch <= chUpperZ)
    \/ (ch >= chLowerA /\ ch <= chLowerZ)

MakeLowerCase(ch) == IF ch >= chUpperA /\ ch <= chUpperZ THEN ch + 32 ELSE ch

LowerWord(w) == [k \in 1..Len(w) |-> MakeLowerCase(w[k])]

InListCaseInsensitive(word, list) == LowerWord(word) \in list

-----------------------------------------------------------------------------
\* String literals of the recogniser

sPlus3 == <<43, 43, 43, 32>>                         \* "+++ "
sDashRw == <<45, 114, 119>>                          \* "-rw"
sDashRDash == <<45, 114, 45>>                        \* "-r-"
sDash3 == <<45, 45, 45, 32>>                         \* "--- "
sDash2 == <<45, 45, 32>>                             \* "-- "
sCf90 == <<99, 102, 57, 48, 45>>                     \* "cf90-"
sFortcom == <<102, 111, 114, 116, 99, 111, 109, 58>> \* "fortcom:"
sFileQuote == <<70, 105, 108, 101, 32, 34>>          \* "File \""
sCommaLine == <<44, 32, 108, 105, 110, 101, 32>>     \* ", line "
sIn == <<32, 105, 110, 32>>                          \* " in "
sOnLine == <<32, 111, 110, 32, 108, 105, 110, 101, 32>>  \* " on line "
sError == <<69, 114, 114, 111, 114, 32>>             \* "Error "
sWarning == <<87, 97, 114, 110, 105, 110, 103, 32>>  \* "Warning "
sAtParen == <<32, 97, 116, 32, 40>>                  \* " at ("
sParenColon == <<41, 32, 58, 32>>                    \* ") : "
sAtLine == <<97, 116, 32, 108, 105, 110, 101, 32>>   \* "at line "
sFile == <<102, 105, 108, 101, 32>>                  \* "file "
sAt == <<32, 97, 116, 32>>                           \* " at "
sLine == <<32, 108, 105, 110, 101, 32>>              \* " line "
sNetAt == <<32, 32, 32, 97, 116, 32>>                \* "   at "
sColonLine == <<58, 108, 105, 110, 101, 32>>         \* ":line "
sLineCap == <<76, 105, 110, 101, 32>>                \* "Line "
sCommaFile == <<44, 32, 102, 105, 108, 101, 32>>     \* ", file "
sLineLow == <<108, 105, 110, 101, 32>>               \* "line "
sColumn == <<32, 99, 111, 108, 117, 109, 110, 32>>   \* " column "
sTabAt == <<9, 97, 116, 32>>                         \* "\tat "
sJava == <<46, 106, 97, 118, 97, 58>>                \* ".java:"
sIncluded == <<73, 110, 32, 102, 105, 108, 101, 32, 105, 110, 99, 108, 117,
               100, 101, 100, 32, 102, 114, 111, 109, 32>>  \* "In file included from "
sFrom == <<32, 32, 32, 32, 32, 32, 32, 32, 32, 32, 32, 32, 32, 32, 32, 32,
           32, 102, 114, 111, 109, 32>>              \* "                 from "
sNmake == <<78, 77, 65, 75, 69, 32, 58, 32, 102, 97, 116, 97, 108, 32, 101,
            114, 114, 111, 114>>                     \* "NMAKE : fatal error"
sWarningLnk == <<119, 97, 114, 110, 105, 110, 103, 32, 76, 78, 75>>  \* "warning LNK"
sErrorLnk == <<101, 114, 114, 111, 114, 32, 76, 78, 75>>  \* "error LNK"
bashDiagnosticMark == <<58, 32, 108, 105, 110, 101, 32>>  \* ": line "
sWarningColon == <<119, 97, 114, 110, 105, 110, 103, 58>>  \* "warning:"
sNoteColon == <<110, 111, 116, 101, 58>>             \* "note:"
sWarningC == <<58, 32, 119, 97, 114, 110, 105, 110, 103, 32, 67>>  \* ": warning C"

\* { "error", "warning", "fatal", "catastrophic", "note", "remark" }
MsWords == { <<101, 114, 114, 111, 114>>,
             <<119, 97, 114, 110, 105, 110, 103>>,
             <<102, 97, 116, 97, 108>>,
             <<99, 97, 116, 97, 115, 116, 114, 111, 112, 104, 105, 99>>,
             <<110, 111, 116, 101>>,
             <<114, 101, 109, 97, 114, 107>> }

\* sizeof(word) - 1 for char word[512]
WordMax == 511

-----------------------------------------------------------------------------
\* Line recognition (RecogniseErrorListLine and its helpers)

RECURSIVE GccExcerptFrom(_, _)
GccExcerptFrom(s, k) ==
    IF CharAt(s, k) = chNUL THEN TRUE
    ELSE IF /\ CharAt(s, k) = chSpace
            /\ CharAt(s, k + 1) = chPipe
            /\ (CharAt(s, k + 2) = chSpace \/ CharAt(s, k + 2) = chPlus)
         THEN TRUE
    ELSE IF ~(CharAt(s, k) = chSpace \/ CharAt(s, k) = chPlus \/ Is0To9(CharAt(s, k)))
         THEN FALSE
    ELSE GccExcerptFrom(s, k + 1)

\* IsGccExcerpt taking a line end for the end of the text
IsGccExcerpt_StopsAtEOL(s) ==
    GccExcerptFrom(SelectSeq(s, LAMBDA c : c # chCR /\ c # chLF), 0)

IsGccExcerpt(s) == GccExcerptFrom(s, 0)

\* number of leading digits of rest
RECURSIVE SkipDigits(_)
SkipDigits(rest) ==
    IF rest # <<>> /\ Is0To9(Head(rest)) THEN 1 + SkipDigits(Tail(rest)) ELSE 0

IsBashDiagnostic(sv) ==
    LET mark == Find(sv, bashDiagnosticMark)
    IN IF mark = -1 THEN FALSE
       ELSE LET rest == From(sv, mark + Len(bashDiagnosticMark))
            IN IF rest = <<>> \/ ~Is0To9(Head(rest)) THEN FALSE
               ELSE LET after == From(rest, SkipDigits(rest))
                    IN after # <<>> /\ Head(after) = chColon

\* The rules tried before the generic scan, in order; NoRule when none applies
NoRule == -1

EarlyRule(buf, lengthLine) ==
    IF CharAt(buf, 0) = chGreater THEN wxSTC_TERMINAL_CMD
    ELSE IF CharAt(buf, 0) = chLess THEN wxSTC_TERMINAL_DIFF_DELETION
    ELSE IF CharAt(buf, 0) = chBang THEN wxSTC_TERMINAL_DIFF_CHANGED
    ELSE IF CharAt(buf, 0) = chPlus THEN
        IF strstart(buf, sPlus3) THEN wxSTC_TERMINAL_DIFF_MESSAGE
        ELSE wxSTC_TERMINAL_DIFF_ADDITION
    ELSE IF /\ CharAt(buf, 0) = chMinus
            /\ ~(strstart(buf, sDashRw) \/ strstart(buf, sDashRDash)) THEN
        IF strstart(buf, sDash3) THEN wxSTC_TERMINAL_DIFF_MESSAGE
        ELSE IF strstart(buf, sDash2) THEN wxSTC_TERMINAL_DEFAULT
        ELSE wxSTC_TERMINAL_DIFF_DELETION
    ELSE IF strstart(buf, sCf90) THEN wxSTC_TERMINAL_ABSF
    ELSE IF strstart(buf, sFortcom) THEN wxSTC_TERMINAL_IFORT
    ELSE IF Contains(buf, sFileQuote) /\ Contains(buf, sCommaLine)
        THEN wxSTC_TERMINAL_PYTHON
    ELSE IF Contains(buf, sIn) /\ Contains(buf, sOnLine)
        THEN wxSTC_TERMINAL_PHP
    ELSE IF /\ (strstart(buf, sError) \/ strstart(buf, sWarning))
            /\ Contains(buf, sAtParen)
            /\ Contains(buf, sParenColon)
            /\ Find(buf, sAtParen) < Find(buf, sParenColon)
        THEN wxSTC_TERMINAL_IFC
    ELSE IF strstart(buf, sError) THEN wxSTC_TERMINAL_BORLAND
    ELSE IF strstart(buf, sWarning) THEN wxSTC_TERMINAL_BORLAND
    ELSE IF /\ Contains(buf, sAtLine) /\ Find(buf, sAtLine) < lengthLine
            /\ Contains(buf, sFile) /\ Find(buf, sFile) < lengthLine
        THEN wxSTC_TERMINAL_LUA
    ELSE IF /\ Contains(buf, sAt) /\ Find(buf, sAt) < lengthLine
            /\ Contains(buf, sLine) /\ Find(buf, sLine) < lengthLine
            /\ Find(buf, sAt) + 4 < Find(buf, sLine)
        THEN wxSTC_TERMINAL_PERL
    ELSE IF /\ lengthLine >= 6
            /\ strstart(buf, sNetAt)
            /\ Contains(buf, sColonLine)
        THEN wxSTC_TERMINAL_NET
    ELSE IF strstart(buf, sLineCap) /\ Contains(buf, sCommaFile)
        THEN wxSTC_TERMINAL_ELF
    ELSE IF strstart(buf, sLineLow) /\ Contains(buf, sColumn)
        THEN wxSTC_TERMINAL_TIDY
    ELSE IF /\ strstart(buf, sTabAt)
            /\ Contains(buf, <<chLParen>>)
            /\ Contains(buf, sJava)
        THEN wxSTC_TERMINAL_JAVA_STACK
    ELSE IF strstart(buf, sIncluded) \/ strstart(buf, sFrom)
        THEN wxSTC_TERMINAL_GCC_INCLUDED_FROM
    ELSE IF strstart(buf, sNmake) THEN wxSTC_TERMINAL_MS
    ELSE IF Contains(buf, sWarningLnk) \/ Contains(buf, sErrorLnk)
        THEN wxSTC_TERMINAL_MS
    ELSE IF IsBashDiagnostic(buf) THEN wxSTC_TERMINAL_BASH
    ELSE IF IsGccExcerpt(buf) THEN wxSTC_TERMINAL_GCC_EXCERPT
    ELSE NoRule

\* the alphabetic word copied into word[] from offset j on
RECURSIVE WordLen(_, _, _)
WordLen(buf, j, chPos) ==
    IF j < Len(buf) /\ IsUpperOrLowerCase(CharAt(buf, j)) /\ chPos < WordMax
    THEN WordLen(buf, j + 1, chPos + 1)
    ELSE chPos

\* WordFrom taking everything up to the end of the line as the word
WordFrom_ToEnd(buf, j) == From(buf, j)

WordFrom(buf, j) == SubSeq(buf, j + 1, j + WordLen(buf, j, 0))

\* One iteration of the scan loop at offset k.  s holds the loop's locals:
\* state, initialColonPart, canBeCtags, startValue, and brk (the loop was left
\* by break).
ScanStep(buf, lengthLine, k, s) ==
    LET ch == CharAt(buf, k)
        chNext == IF (k + 1) < lengthLine THEN CharAt(buf, k + 1) ELSE chSpace
        initialTab == (CharAt(buf, 0) = chTab)
    IN
    CASE s.state = "stInitial" ->
            IF ch = chColon THEN
                IF (chNext # chBackslash) /\ (chNext # chSlash) /\ (chNext # chSpace)
                THEN [s EXCEPT !.state = "stGccStart"]
                ELSE IF chNext = chSpace THEN [s EXCEPT !.initialColonPart = TRUE]
                ELSE s
            ELSE IF (ch = chLParen) /\ Is1To9(chNext) /\ (~initialTab)
                THEN [s EXCEPT !.state = "stMsStart"]
            ELSE IF (ch = chTab) /\ s.canBeCtags
                THEN [s EXCEPT !.state = "stCtagsStart"]
            ELSE IF ch = chSpace THEN [s EXCEPT !.canBeCtags = FALSE]
            ELSE s
      [] s.state = "stGccStart" ->
            [s EXCEPT !.state = IF (ch = chMinus) \/ Is0To9(ch)
                                THEN "stGccDigit" ELSE "stUnrecognized"]
      [] s.state = "stGccDigit" ->
            IF ch = chColon
                THEN [s EXCEPT !.state = "stGccColumn", !.startValue = k + 1]
            ELSE IF ~Is0To9(ch) THEN [s EXCEPT !.state = "stUnrecognized"]
            ELSE s
      [] s.state = "stGccColumn" ->
            IF ~Is0To9(ch)
                THEN [s EXCEPT !.state = "stGcc",
                               !.startValue = IF ch = chColon THEN k + 1 ELSE @,
                               !.brk = TRUE]
            ELSE s
      [] s.state = "stMsStart" ->
            [s EXCEPT !.state = IF Is0To9(ch) THEN "stMsDigit" ELSE "stUnrecognized"]
      [] s.state = "stMsDigit" ->
            IF ch = chComma THEN [s EXCEPT !.state = "stMsDigitComma"]
            ELSE IF ch = chRParen THEN [s EXCEPT !.state = "stMsBracket"]
            ELSE IF (ch # chSpace) /\ ~Is0To9(ch) THEN [s EXCEPT !.state = "stUnrecognized"]
            ELSE s
      [] s.state = "stMsBracket" ->
            IF (ch = chSpace) /\ (chNext = chColon) THEN [s EXCEPT !.state = "stMsVc"]
            ELSE IF (ch = chColon /\ chNext = chSpace) \/ (ch = chSpace) THEN
                LET numstep == IF ch = chSpace THEN 1 ELSE 2
                    word == WordFrom(buf, k + numstep)
                IN IF InListCaseInsensitive(word, MsWords)
                   THEN [s EXCEPT !.state = "stMsVc"]
                   ELSE [s EXCEPT !.state = "stUnrecognized"]
            ELSE [s EXCEPT !.state = "stUnrecognized"]
      [] s.state = "stMsDigitComma" ->
            IF ch = chRParen THEN [s EXCEPT !.state = "stMsDotNet", !.brk = TRUE]
            ELSE IF (ch # chSpace) /\ ~Is0To9(ch) THEN [s EXCEPT !.state = "stUnrecognized"]
            ELSE s
      [] s.state = "stCtagsStart" ->
            IF ch = chTab THEN [s EXCEPT !.state = "stCtagsFile"] ELSE s
      [] s.state = "stCtagsFile" ->
            IF /\ CharAt(buf, k - 1) = chTab
               /\ ((ch = chSlash /\ chNext = chCaret) \/ Is0To9(ch))
                THEN [s EXCEPT !.state = "stCtags", !.brk = TRUE]
            ELSE IF (ch = chSlash) /\ (chNext = chCaret)
                THEN [s EXCEPT !.state = "stCtagsStartString"]
            ELSE s
      [] s.state = "stCtagsStartString" ->
            IF (CharAt(buf, k) = chDollar) /\ (CharAt(buf, k + 1) = chSlash)
                THEN [s EXCEPT !.state = "stCtagsStringDollar", !.brk = TRUE]
            ELSE s
      [] OTHER -> s

\* ScanFrom with a scan that starts over after an unrecognised candidate
RECURSIVE ScanFrom_Restarts(_, _, _, _)
ScanFrom_Restarts(buf, lengthLine, k, s) ==
    IF k < lengthLine /\ ~s.brk
    THEN ScanFrom_Restarts(buf, lengthLine, k + 1,
             ScanStep(buf, lengthLine, k,
                      IF s.state = "stUnrecognized"
                      THEN [s EXCEPT !.state = "stInitial"] ELSE s))
    ELSE s

RECURSIVE ScanFrom(_, _, _, _)
ScanFrom(buf, lengthLine, k, s) ==
    IF k < lengthLine /\ ~s.brk
    THEN ScanFrom(buf, lengthLine, k + 1, ScanStep(buf, lengthLine, k, s))
    ELSE s

\* GenericScan with canBeCtags false from the start: no line is taken for a
\* CTags line
GenericScan_NoCtags(buf, lengthLine, startVal) ==
    ScanFrom(buf, lengthLine, 0,
             [state |-> "stInitial",
              initialColonPart |-> FALSE,
              canBeCtags |-> FALSE,
              startValue |-> startVal,
              brk |-> FALSE])

\* the scan loop run to its end, from the declarations of its locals
GenericScan(buf, lengthLine, startVal) ==
    ScanFrom(buf, lengthLine, 0,
             [state |-> "stInitial",
              initialColonPart |-> FALSE,
              canBeCtags |-> ~(CharAt(buf, 0) = chTab),
              startValue |-> startVal,
              brk |-> FALSE])

\* ScanStyle without the test for "warning:": a GCC line with a warning is
\* taken for an error or a note
ScanStyle_NoWarning(buf, s) ==
    IF s.state = "stGcc" THEN
        IF s.initialColonPart THEN wxSTC_TERMINAL_LUA
        ELSE IF Contains(buf, sNoteColon) THEN wxSTC_TERMINAL_GCC_NOTE
        ELSE wxSTC_TERMINAL_GCC
    ELSE IF (s.state = "stMsVc") \/ (s.state = "stMsDotNet") THEN wxSTC_TERMINAL_MS
    ELSE IF (s.state = "stCtagsStringDollar") \/ (s.state = "stCtags") THEN wxSTC_TERMINAL_CTAG
    ELSE IF s.initialColonPart /\ Contains(buf, sWarningC) THEN wxSTC_TERMINAL_MS
    ELSE wxSTC_TERMINAL_DEFAULT

\* ScanStyle without the leading-colon flag: a Lua 5.1 message is taken for a
\* GCC one, and a warning without line number is not recognised
ScanStyle_NoColonPart(buf, s) ==
    IF s.state = "stGcc" THEN
        IF Contains(buf, sWarningColon) THEN wxSTC_TERMINAL_GCC_WARNING
        ELSE IF Contains(buf, sNoteColon) THEN wxSTC_TERMINAL_GCC_NOTE
        ELSE wxSTC_TERMINAL_GCC
    ELSE IF (s.state = "stMsVc") \/ (s.state = "stMsDotNet") THEN wxSTC_TERMINAL_MS
    ELSE IF (s.state = "stCtagsStringDollar") \/ (s.state = "stCtags") THEN wxSTC_TERMINAL_CTAG
    ELSE wxSTC_TERMINAL_DEFAULT

\* the category chosen from the scan's final state
ScanStyle(buf, s) ==
    IF s.state = "stGcc" THEN
        IF s.initialColonPart THEN wxSTC_TERMINAL_LUA
        ELSE IF Contains(buf, sWarningColon) THEN wxSTC_TERMINAL_GCC_WARNING
        ELSE IF Contains(buf, sNoteColon) THEN wxSTC_TERMINAL_GCC_NOTE
        ELSE wxSTC_TERMINAL_GCC
    ELSE IF (s.state = "stMsVc") \/ (s.state = "stMsDotNet") THEN wxSTC_TERMINAL_MS
    ELSE IF (s.state = "stCtagsStringDollar") \/ (s.state = "stCtags") THEN wxSTC_TERMINAL_CTAG
    ELSE IF s.initialColonPart /\ Contains(buf, sWarningC) THEN wxSTC_TERMINAL_MS
    ELSE wxSTC_TERMINAL_DEFAULT

\* Returns the category and the value of the in/out parameter startValue
RecogniseErrorListLine(buf, lengthLine, startVal) ==
    LET early == EarlyRule(buf, lengthLine)
    IN IF early # NoRule THEN [style |-> early, startValue |-> startVal]
       ELSE LET s == GenericScan(buf, lengthLine, startVal)
            IN [style |-> ScanStyle(buf, s), startValue |-> s.startValue]

-----------------------------------------------------------------------------
\* Colour model

R(c) == (c \div 65536) % 256
G(c) == (c \div 256) % 256
B(c) == c % 256

\* uint32_t base_colours[16], index 0..15 held at 1..16
base_colours ==
    << 0, 13434880, 52480, 13487360, 238, 13435085, 52685, 15066597,
       8355711, 16711680, 65280, 16776960, 6053119, 16711935, 65535, 16777215 >>

base_colour_to_style ==
    << wxSTC_TERMINAL_ES_BLACK, wxSTC_TERMINAL_ES_RED,
       wxSTC_TERMINAL_ES_GREEN, wxSTC_TERMINAL_ES_BROWN,
       wxSTC_TERMINAL_ES_BLUE, wxSTC_TERMINAL_ES_MAGENTA,
       wxSTC_TERMINAL_ES_CYAN, wxSTC_TERMINAL_ES_GRAY,
       wxSTC_TERMINAL_ES_DARK_GRAY, wxSTC_TERMINAL_ES_BRIGHT_RED,
       wxSTC_TERMINAL_ES_BRIGHT_GREEN, wxSTC_TERMINAL_ES_YELLOW,
       wxSTC_TERMINAL_ES_BRIGHT_BLUE, wxSTC_TERMINAL_ES_BRIGHT_MAGENTA,
       wxSTC_TERMINAL_ES_BRIGHT_CYAN, wxSTC_TERMINAL_ES_WHITE >>

\* the static table colours[256] of rgb_from_ansi256, index 0..255 held at 1..256
colours ==
    << 0, 13434880, 52480, 13487360, 238, 13435085, 52685, 15066597,
       8355711, 16711680, 65280, 16776960, 6053119, 16711935, 65535, 16777215,
       0, 95, 135, 175, 215, 255, 24320, 24415,
       24455, 24495, 24535, 24575, 34560, 34655, 34695, 34735,
       34775, 34815, 44800, 44895, 44935, 44975, 45015, 45055,
       55040, 55135, 55175, 55215, 55255, 55295, 65280, 65375,
       65415, 65455, 65495, 65535, 6225920, 6226015, 6226055, 6226095,
       6226135, 6226175, 6250240, 6250335, 6250375, 6250415, 6250455, 6250495,
       6260480, 6260575, 6260615, 6260655, 6260695, 6260735, 6270720, 6270815,
       6270855, 6270895, 6270935, 6270975, 6280960, 6281055, 6281095, 6281135,
       6281175, 6281215, 6291200, 6291295, 6291335, 6291375, 6291415, 6291455,
       8847360, 8847455, 8847495, 8847535, 8847575, 8847615, 8871680, 8871775,
       8871815, 8871855, 8871895, 8871935, 8881920, 8882015, 8882055, 8882095,
       8882135, 8882175, 8892160, 8892255, 8892295, 8892335, 8892375, 8892415,
       8902400, 8902495, 8902535, 8902575, 8902615, 8902655, 8912640, 8912735,
       8912775, 8912815, 8912855, 8912895, 11468800, 11468895, 11468935, 11468975,
       11469015, 11469055, 11493120, 11493215, 11493255, 11493295, 11493335, 11493375,
       11503360, 11503455, 11503495, 11503535, 11503575, 11503615, 11513600, 11513695,
       11513735, 11513775, 11513815, 11513855, 11523840, 11523935, 11523975, 11524015,
       11524055, 11524095, 11534080, 11534175, 11534215, 11534255, 11534295, 11534335,
       14090240, 14090335, 14090375, 14090415, 14090455, 14090495, 14114560, 14114655,
       14114695, 14114735, 14114775, 14114815, 14124800, 14124895, 14124935, 14124975,
       14125015, 14125055, 14135040, 14135135, 14135175, 14135215, 14135255, 14135295,
       14145280, 14145375, 14145415, 14145455, 14145495, 14145535, 14155520, 14155615,
       14155655, 14155695, 14155735, 14155775, 16711680, 16711775, 16711815, 16711855,
       16711895, 16711935, 16736000, 16736095, 16736135, 16736175, 16736215, 16736255,
       16746240, 16746335, 16746375, 16746415, 16746455, 16746495, 16756480, 16756575,
       16756615, 16756655, 16756695, 16756735, 16766720, 16766815, 16766855, 16766895,
       16766935, 16766975, 16776960, 16777055, 16777095, 16777135, 16777175, 16777215,
       526344, 1184274, 1842204, 2500134, 3158064, 3815994, 4473924, 5131854,
       5789784, 6447714, 7105644, 7763574, 8421504, 9079434, 9737364, 10395294,
       11053224, 11711154, 12369084, 13027014, 13684944, 14342874, 15000804, 15658734 >>

rgb_from_ansi256(index) == colours[index + 1]

\* distance without the green term
distance_NoGreen(x, y) ==
    LET r_sum == R(x) + R(y)
        r == R(x) - R(y)
        b == B(x) - B(y)
    IN (1024 + r_sum) * r * r + (1534 - r_sum) * b * b

\* The arithmetic of distance() is 32 bits wide.  For 8-bit components the
\* three terms are at most 1279 * 255^2, 2048 * 255^2 and 1534 * 255^2, so the
\* sum stays below 2^29 and never wraps.
distance(x, y) ==
    LET r_sum == R(x) + R(y)
        r == R(x) - R(y)
        g == G(x) - G(y)
        b == B(x) - B(y)
    IN (1024 + r_sum) * r * r + 2048 * g * g + (1534 - r_sum) * b * b

\* (uint32_t)-1, the initial value of dist: above every value of distance()
DistMax == 2147483647

\* the search loop with the bright colours left out
RECURSIVE NearestFrom_DarkOnly(_, _, _, _)
NearestFrom_DarkOnly(encoded, k, dist, index) ==
    IF k < 8 THEN
        LET curdist == distance(encoded, base_colours[k + 1])
        IN IF curdist < dist THEN NearestFrom_DarkOnly(encoded, k + 1, curdist, k)
           ELSE NearestFrom_DarkOnly(encoded, k + 1, dist, index)
    ELSE index

\* the search loop of style_from_colour_number from iteration k on, with the
\* loop's locals dist and index
RECURSIVE NearestFrom(_, _, _, _)
NearestFrom(encoded, k, dist, index) ==
    IF k < 16 THEN
        LET curdist == distance(encoded, base_colours[k + 1])
        IN IF curdist < dist THEN NearestFrom(encoded, k + 1, curdist, k)
           ELSE NearestFrom(encoded, k + 1, dist, index)
    ELSE index

\* number is a uint8_t
style_from_colour_number(number) ==
    IF number >= 30 /\ number <= 37 THEN base_colour_to_style[number - 30 + 1]
    ELSE IF number >= 90 /\ number <= 97 THEN base_colour_to_style[number - 90 + 8 + 1]
    ELSE LET encoded == rgb_from_ansi256(number)
         IN base_colour_to_style[NearestFrom(encoded, 0, DistMax, 0) + 1]

-----------------------------------------------------------------------------
\* Escape tokenizer and SGR resolver

CSI == <<27, 91>>       \* "\033["
CSI_LEN == 2
ESC == <<27>>           \* "\033"
ESC_LEN == 1

SequenceEnd(ch) == (ch = chNUL) \/ ((ch >= chAt) /\ (ch <= chTilde))

IsSeparator(ch) == (ch = chSemi \/ ch = chColon)

\* number of digits at offset p of str
RECURSIVE DigitRun(_, _)
DigitRun(str, p) == IF Is0To9(CharAt(str, p)) THEN 1 + DigitRun(str, p + 1) ELSE 0

\* atoi of the n digits at offset p of str
RECURSIVE Atoi(_, _, _)
Atoi(str, p, n) ==
    IF n = 0 THEN 0
    ELSE Atoi(str, p, n - 1) * 10 + (CharAt(str, p + n - 1) - chZero)

\* ReadNext on the characters of str from offset p; returns the token type
\* and the out parameters number and consumed
ReadNext(str, p) ==
    LET ch == CharAt(str, p)
    IN IF SequenceEnd(ch) THEN [type |-> "Eof", number |-> 0, consumed |-> 0]
       ELSE IF Is0To9(ch) THEN
            LET n == DigitRun(str, p)
            IN [type |-> "Number", number |-> Atoi(str, p, n), consumed |-> n]
       ELSE IF IsSeparator(ch) THEN [type |-> "Separator", number |-> 0, consumed |-> 1]
       ELSE [type |-> "Eof", number |-> 0, consumed |-> 1]

\* the 38;5;<number> branch, entered with p at the token 38 (t0)
ExtendedColour(str, p, t0) ==
    LET p1 == p + t0.consumed
        t1 == ReadNext(str, p1)
        p2 == p1 + t1.consumed
        t2 == ReadNext(str, p2)
        p3 == p2 + t2.consumed
        t3 == ReadNext(str, p3)
        p4 == p3 + t3.consumed
        t4 == ReadNext(str, p4)
    IN IF t1.type # "Separator" THEN wxSTC_TERMINAL_DEFAULT
       ELSE IF t2.type # "Number" THEN wxSTC_TERMINAL_DEFAULT
       ELSE IF t2.number # 5 THEN wxSTC_TERMINAL_DEFAULT
       ELSE IF t3.type # "Separator" THEN wxSTC_TERMINAL_DEFAULT
       ELSE IF t4.type # "Number" THEN wxSTC_TERMINAL_DEFAULT
       ELSE style_from_colour_number(t4.number % 256)

\* ColourToken without the case of the background selector 48
ColourToken_NoBackground(str, p, t) ==
    IF t.type = "Number" /\ t.number = 38 THEN ExtendedColour(str, p, t)
    ELSE IF t.type = "Number" /\ t.number < 256 THEN style_from_colour_number(t.number % 256)
    ELSE wxSTC_TERMINAL_DEFAULT

\* the colour selection on the token t read at offset p
ColourToken(str, p, t) ==
    IF t.type = "Number" /\ t.number = 38 THEN ExtendedColour(str, p, t)
    ELSE IF t.type = "Number" /\ t.number = 48 THEN wxSTC_TERMINAL_DEFAULT
    ELSE IF t.type = "Number" /\ t.number < 256 THEN style_from_colour_number(t.number % 256)
    ELSE wxSTC_TERMINAL_DEFAULT

\* StyleFromSequence that gives up after a leading attribute code
StyleFromSequence_AttributeOnly(str, p0) ==
    LET t == ReadNext(str, p0)
    IN IF t.type = "Number" /\ (t.number >= 0 /\ t.number <= 9)
       THEN wxSTC_TERMINAL_DEFAULT
       ELSE ColourToken(str, p0, t)

\* StyleFromSequence without the attribute branch: a leading 0 to 9 is taken
\* for a colour number
StyleFromSequence_NoAttribute(str, p0) == ColourToken(str, p0, ReadNext(str, p0))

\* StyleFromSequence(str + p0)
StyleFromSequence(str, p0) ==
    LET t == ReadNext(str, p0)
    IN IF t.type = "Number" /\ (t.number >= 0 /\ t.number <= 9) THEN
            LET p1 == p0 + t.consumed
                ta == ReadNext(str, p1)
                p2 == p1 + ta.consumed
                tb == ReadNext(str, p2)
            IN IF ta.type # "Separator" THEN wxSTC_TERMINAL_DEFAULT
               ELSE ColourToken(str, p2, tb)
       ELSE ColourToken(str, p0, t)

sParenB == <<40, 66>>   \* "(B"
sParen0 == <<40, 48>>   \* "(0"
sParenU == <<40, 85>>   \* "(U"
sParenK == <<40, 75>>   \* "(K"

\* findOtherEscape(sv, pos, len) with pos = pos0 on entry; returns the result
\* and the in/out parameters
findOtherEscape(sv, pos0, len0) ==
    LET where == Find(sv, ESC)
    IN IF where = -1 THEN [found |-> FALSE, pos |-> pos0, len |-> len0]
       ELSE LET sub == From(sv, where + ESC_LEN)
            IN IF \/ Contains(sub, sParenB) \/ Contains(sub, sParen0)
                  \/ Contains(sub, sParenU) \/ Contains(sub, sParenK)
               THEN [found |-> TRUE, pos |-> pos0 + where, len |-> ESC_LEN + 2]
               ELSE [found |-> FALSE, pos |-> pos0, len |-> len0]

-----------------------------------------------------------------------------
\* ColouriseErrorListLine, one loop iteration at a time.
\*
\* A record L holds the function's locals (style, startValue, endPos,
\* linePortion, startPortion, portionStyle, startSeq, prefix, pos), the place
\* reached in it (at: "csi" the head of the CSI loop, "prefix" the head of the
\* prefix loop, "seq" the scan for the run's terminator, "ret" returned) and
\* out, the ColourTo calls <<position, style>> the step made, in order.
\* Pointers into the line are 0-based offsets into buf; positions are kept as
\* integers (the size_t sums of the source are taken modulo 2^64 and every
\* position passed to ColourTo is the same non-negative number).

NoLocals ==
    [style |-> 0, startValue |-> -1, endPos |-> 0, linePortion |-> 0,
     startPortion |-> 0, portionStyle |-> 0, startSeq |-> 0, prefix |-> <<>>,
     pos |-> 0, at |-> "ret", out |-> <<>>]

\* EnterColourise that interprets escape sequences whatever the option says
EnterColourise_AlwaysEscapes(buf, e, valSep, escSeq) ==
    LET lengthLine == Len(buf)
        rec == RecogniseErrorListLine(buf, lengthLine, -1)
        base == [NoLocals EXCEPT !.style = rec.style,
                                 !.startValue = rec.startValue,
                                 !.endPos = e]
    IN IF Contains(buf, CSI) THEN
            [base EXCEPT !.linePortion = 0,
                         !.startPortion = e - lengthLine,
                         !.portionStyle = rec.style,
                         !.at = "csi"]
       ELSE IF valSep /\ (rec.startValue >= 0) THEN
            [base EXCEPT !.out = << <<e - (lengthLine - rec.startValue), rec.style>>,
                                    <<e, wxSTC_TERMINAL_VALUE>> >>]
       ELSE [base EXCEPT !.out = << <<e, rec.style>> >>]

\* EnterColourise with the split taken one character early
EnterColourise_SplitEarly(buf, e, valSep, escSeq) ==
    LET lengthLine == Len(buf)
        rec == RecogniseErrorListLine(buf, lengthLine, -1)
        base == [NoLocals EXCEPT !.style = rec.style,
                                 !.startValue = rec.startValue,
                                 !.endPos = e]
    IN IF escSeq /\ Contains(buf, CSI) THEN
            [base EXCEPT !.linePortion = 0,
                         !.startPortion = e - lengthLine,
                         !.portionStyle = rec.style,
                         !.at = "csi"]
       ELSE IF valSep /\ (rec.startValue >= 0) THEN
            [base EXCEPT !.out = << <<e - (lengthLine - rec.startValue) - 1, rec.style>>,
                                    <<e, wxSTC_TERMINAL_VALUE>> >>]
       ELSE [base EXCEPT !.out = << <<e, rec.style>> >>]

\* the call up to the first test of the CSI loop, or to the return when the
\* line is not escape-interpreted
EnterColourise(buf, e, valSep, escSeq) ==
    LET lengthLine == Len(buf)
        rec == RecogniseErrorListLine(buf, lengthLine, -1)
        base == [NoLocals EXCEPT !.style = rec.style,
                                 !.startValue = rec.startValue,
                                 !.endPos = e]
    IN IF escSeq /\ Contains(buf, CSI) THEN
            [base EXCEPT !.linePortion = 0,
                         !.startPortion = e - lengthLine,
                         !.portionStyle = rec.style,
                         !.at = "csi"]
       ELSE IF valSep /\ (rec.startValue >= 0) THEN
            [base EXCEPT !.out = << <<e - (lengthLine - rec.startValue), rec.style>>,
                                    <<e, wxSTC_TERMINAL_VALUE>> >>]
       ELSE [base EXCEPT !.out = << <<e, rec.style>> >>]

\* the test of the CSI loop: the next run is found, or the tail is coloured
CsiLoop(buf, L) ==
    LET where == Find(From(buf, L.linePortion), CSI)
    IN IF where = -1 THEN
            [L EXCEPT !.out = << <<L.endPos, L.portionStyle>> >>, !.at = "ret"]
       ELSE IF where > 0 THEN
            [L EXCEPT !.startSeq = L.linePortion + where,
                      !.prefix = SubSeq(buf, L.linePortion + 1, L.linePortion + where),
                      !.pos = L.startPortion,
                      !.out = <<>>,
                      !.at = "prefix"]
       ELSE [L EXCEPT !.startSeq = L.linePortion, !.out = <<>>, !.at = "seq"]

\* the test and one iteration of the loop over the text before the run
PrefixLoop(buf, L) ==
    IF L.prefix = <<>> THEN [L EXCEPT !.out = <<>>, !.at = "seq"]
    ELSE LET f == findOtherEscape(L.prefix, 0, 0)
             otherEscPos == f.pos
             otherEscLen == f.len
         IN IF f.found THEN
                LET before == IF otherEscPos # 0
                              THEN << <<L.pos + otherEscPos, L.portionStyle>> >>
                              ELSE <<>>
                    pos1 == IF otherEscPos # 0 THEN L.pos + otherEscPos ELSE L.pos
                IN [L EXCEPT !.out = before \o
                                     << <<pos1 + otherEscLen, wxSTC_TERMINAL_ESCSEQ_UNKNOWN>> >>,
                             !.pos = pos1 + otherEscLen,
                             !.prefix = From(L.prefix, otherEscPos + otherEscLen)]
            ELSE [L EXCEPT !.out = << <<L.pos + (L.startSeq - L.linePortion),
                                        L.portionStyle>> >>,
                           !.at = "seq"]

\* offset of the first SequenceEnd character at or after k
RECURSIVE EndSeqFrom(_, _)
EndSeqFrom(buf, k) == IF SequenceEnd(CharAt(buf, k)) THEN k ELSE EndSeqFrom(buf, k + 1)

\* SeqEnd that takes the end of the line for a terminator
SeqEnd_EndTerminates(buf, L) ==
    LET endSeq == EndSeqFrom(buf, L.startSeq + CSI_LEN)
        endSeqPosition == L.startPortion + (endSeq - L.linePortion) + 1
        term == CharAt(buf, endSeq)
        next == [L EXCEPT !.startPortion = endSeqPosition,
                          !.linePortion = endSeq + 1,
                          !.at = "csi"]
    IN IF term = chNUL THEN
            [L EXCEPT !.out = << <<L.endPos, wxSTC_TERMINAL_ESCSEQ>> >>,
                      !.at = "ret"]
       ELSE IF term = chLowerM THEN
            [next EXCEPT !.out = << <<endSeqPosition, wxSTC_TERMINAL_ESCSEQ>> >>,
                         !.portionStyle = StyleFromSequence(buf, L.startSeq + CSI_LEN)]
       ELSE IF term = chUpperK THEN
            [next EXCEPT !.out = << <<endSeqPosition, wxSTC_TERMINAL_ESCSEQ>> >>]
       ELSE [next EXCEPT !.out = << <<endSeqPosition, wxSTC_TERMINAL_ESCSEQ_UNKNOWN>> >>,
                         !.portionStyle = L.style]

\* SeqEnd with a 'K' run treated as an unrecognised one: the running category
\* goes back to the base category
SeqEnd_KResets(buf, L) ==
    LET endSeq == EndSeqFrom(buf, L.startSeq + CSI_LEN)
        endSeqPosition == L.startPortion + (endSeq - L.linePortion) + 1
        term == CharAt(buf, endSeq)
        next == [L EXCEPT !.startPortion = endSeqPosition,
                          !.linePortion = endSeq + 1,
                          !.at = "csi"]
    IN IF term = chNUL THEN
            [L EXCEPT !.out = << <<L.endPos, wxSTC_TERMINAL_ESCSEQ_UNKNOWN>> >>,
                      !.at = "ret"]
       ELSE IF term = chLowerM THEN
            [next EXCEPT !.out = << <<endSeqPosition, wxSTC_TERMINAL_ESCSEQ>> >>,
                         !.portionStyle = StyleFromSequence(buf, L.startSeq + CSI_LEN)]
       ELSE IF term = chUpperK THEN
            [next EXCEPT !.out = << <<endSeqPosition, wxSTC_TERMINAL_ESCSEQ>> >>,
                         !.portionStyle = L.style]
       ELSE [next EXCEPT !.out = << <<endSeqPosition, wxSTC_TERMINAL_ESCSEQ_UNKNOWN>> >>,
                         !.portionStyle = L.style]

\* the scan to the run's terminator and the switch on it
SeqEnd(buf, L) ==
    LET endSeq == EndSeqFrom(buf, L.startSeq + CSI_LEN)
        endSeqPosition == L.startPortion + (endSeq - L.linePortion) + 1
        term == CharAt(buf, endSeq)
        next == [L EXCEPT !.startPortion = endSeqPosition,
                          !.linePortion = endSeq + 1,
                          !.at = "csi"]
    IN IF term = chNUL THEN
            [L EXCEPT !.out = << <<L.endPos, wxSTC_TERMINAL_ESCSEQ_UNKNOWN>> >>,
                      !.at = "ret"]
       ELSE IF term = chLowerM THEN
            [next EXCEPT !.out = << <<endSeqPosition, wxSTC_TERMINAL_ESCSEQ>> >>,
                         !.portionStyle = StyleFromSequence(buf, L.startSeq + CSI_LEN)]
       ELSE IF term = chUpperK THEN
            [next EXCEPT !.out = << <<endSeqPosition, wxSTC_TERMINAL_ESCSEQ>> >>]
       ELSE [next EXCEPT !.out = << <<endSeqPosition, wxSTC_TERMINAL_ESCSEQ_UNKNOWN>> >>,
                         !.portionStyle = L.style]

-----------------------------------------------------------------------------
\* Inputs: the documents, ranges and option settings of the modelled runs.
\* A document is up to MaxCtxLines preceding lines followed by one line made of
\* a prefix, a body and a line end; the range leaves out up to MaxTrim
\* characters at the document's start or end.

MaxCtxLines == 1
MaxTrim == 1

Heads ==
    {
      <<>>,   \* ""
      <<62>>,   \* ">"
      <<60>>,   \* "<"
      <<33>>,   \* "!"
      <<43>>,   \* "+"
      <<43, 43, 43, 32>>,   \* "+++ "
      <<45>>,   \* "-"
      <<45, 45, 45, 32>>,   \* "--- "
      <<45, 45, 32>>,   \* "-- "
      <<45, 114, 119, 32>>,   \* "-rw "
      <<45, 114, 45, 32>>,   \* "-r- "
      <<120, 58, 32>>    \* "x: "
    }

Bodies ==
    {
      <<109, 97, 105, 110, 46, 99, 58, 49, 50, 58, 53, 58, 32, 101, 114, 114, 111, 114, 58, 32, 120>>,   \* "main.c:12:5: error: x"
      <<109, 97, 105, 110, 46, 99, 58, 49, 50, 58, 53, 58, 32, 119, 97, 114, 110, 105, 110, 103, 58, 32, 120>>,   \* "main.c:12:5: warning: x"
      <<102, 58, 49, 50, 58, 32, 110, 111, 116, 101, 58, 32, 120>>,   \* "f:12: note: x"
      <<102, 58, 49, 58, 50, 120>>,   \* "f:1:2x"
      <<102, 58, 49, 58, 50, 58>>,   \* "f:1:2:"
      <<102, 58, 49, 58, 50>>,   \* "f:1:2"
      <<32, 32, 70, 105, 108, 101, 32, 34, 97, 46, 112, 121, 34, 44, 32, 108, 105, 110, 101, 32, 51>>,   \* "  File "a.py", line 3"
      <<102, 111, 111, 46, 99, 115, 40, 49, 48, 44, 50, 41, 58, 32, 101, 114, 114, 111, 114, 32, 67, 83, 48, 48, 48, 49>>,   \* "foo.cs(10,2): error CS0001"
      <<116, 97, 103, 9, 102, 105, 108, 101, 46, 99, 9, 47, 94, 105, 110, 116, 32, 109, 97, 105, 110, 47>>,   \* "tag\tfile.c\t/^int main/"
      <<114, 101, 109, 111, 118, 101, 100, 32, 108, 105, 110, 101>>,   \* "removed line"
      <<98, 47, 102, 105, 108, 101, 46, 116, 120, 116>>,   \* "b/file.txt"
      <<27, 91, 51, 49, 109, 101, 114, 114, 111, 114, 27, 91, 48, 109, 58, 32, 98, 97, 100>>,   \* "ESC[31merrorESC[0m: bad"
      <<27, 91, 49, 59, 51, 50, 109, 111, 107, 27, 91, 75, 122>>,   \* "ESC[1;32mokESC[Kz"
      <<27, 91, 51, 56, 59, 53, 59, 49, 57, 54, 109, 114, 27, 91, 72, 113>>,   \* "ESC[38;5;196mrESC[Hq"
      <<97, 27, 40, 66, 120, 27, 91, 109>>,   \* "aESC(BxESC[m"
      <<97, 98, 27, 40, 48, 27, 91, 51, 49>>,   \* "abESC(0ESC[31"
      <<97, 27, 40, 66, 98>>,   \* "aESC(Bb"
      <<27, 91, 48, 109, 116, 120, 116>>,   \* "ESC[0mtxt"
      <<>>,   \* ""
      <<32, 49, 50, 32, 124, 32, 120>>,   \* " 12 | x"
      <<27, 91, 51, 13, 113, 10, 122>>,   \* "ESC[3\rq\nz"
      <<97, 27, 120, 40, 66, 122, 27, 91, 109>>,   \* "aESCx(BzESC[m"
      <<32, 49, 50>>,   \* " 12"
      <<51, 120, 32, 124, 32, 121>>    \* "3x | y"
    }

LineEnds ==
    {
      <<>>,   \* ""
      <<10>>,   \* "\n"
      <<13, 10>>    \* "\r\n"
    }

CtxLines ==
    {
      <<27, 91, 51, 50, 109, 102, 58, 49, 58, 50, 58, 32, 119, 13, 10>>    \* "ESC[32mf:1:2: w\r\n"
    }

RECURSIVE Contexts(_)
Contexts(n) ==
    IF n = 0 THEN {<<>>}
    ELSE Contexts(n - 1) \union {c \o l : c \in Contexts(n - 1), l \in CtxLines}

\* <<characters left out at the start, characters left out at the end>>
Trims == {t \in (0..MaxTrim) \X (0..MaxTrim) : t[1] + t[2] <= MaxTrim}

-----------------------------------------------------------------------------
\* The text source and style sink

\* styler[index]
StylerAt(index) == doc[index + 1]

SafeGetCharAt(index, chDefault) ==
    IF index >= 0 /\ index < Len(doc) THEN doc[index + 1] ELSE chDefault

\* AtEOL that takes every CR for a line end
AtEOL_EveryCR(k) ==
    \/ StylerAt(k) = chLF
    \/ StylerAt(k) = chCR

AtEOL(k) ==
    \/ StylerAt(k) = chLF
    \/ (StylerAt(k) = chCR /\ SafeGetCharAt(k + 1, chSpace) # chLF)

-----------------------------------------------------------------------------
\* ColouriseTerminalDocInternal

inputs == <<doc, startPos, length, valueSeparate, escapeSequences>>
locals == <<style, startValue, endPos, linePortion, startPortion, portionStyle,
            startSeq, prefix, pos>>
sgrVars == <<tokens, seq, result>>

\* the locals of ColouriseErrorListLine as a record
Locals ==
    [style |-> style, startValue |-> startValue, endPos |-> endPos,
     linePortion |-> linePortion, startPortion |-> startPortion,
     portionStyle |-> portionStyle, startSeq |-> startSeq, prefix |-> prefix,
     pos |-> pos, at |-> pc, out |-> <<>>]

\* Resume without lineBuffer.clear() after the call in the loop
Resume_KeepsBuffer(site, buf) ==
    IF site = "loop"
    THEN [pc |-> "scan", i |-> i + 1, lineBuffer |-> buf]
    ELSE [pc |-> "done", i |-> i, lineBuffer |-> buf]

\* the caller's part of a return from ColouriseErrorListLine: after the call in
\* the loop the buffer is cleared and the loop goes on, after the call for the
\* last line the function ends
\* Resume going on two characters after the line end
Resume_SkipsOne(site, buf) ==
    IF site = "loop"
    THEN [pc |-> "scan", i |-> i + 2, lineBuffer |-> <<>>]
    ELSE [pc |-> "done", i |-> i, lineBuffer |-> buf]

Resume(site, buf) ==
    IF site = "loop"
    THEN [pc |-> "scan", i |-> i + 1, lineBuffer |-> <<>>]
    ELSE [pc |-> "done", i |-> i, lineBuffer |-> buf]

\* a step of ColouriseErrorListLine that ends in N, for the call made at site
Apply(N, site, buf) ==
    /\ sink' = sink \o N.out
    /\ IF N.at = "ret"
       THEN /\ pc' = Resume(site, buf).pc
            /\ i' = Resume(site, buf).i
            /\ lineBuffer' = Resume(site, buf).lineBuffer
            /\ style' = NoLocals.style
            /\ startValue' = NoLocals.startValue
            /\ endPos' = NoLocals.endPos
            /\ linePortion' = NoLocals.linePortion
            /\ startPortion' = NoLocals.startPortion
            /\ portionStyle' = NoLocals.portionStyle
            /\ startSeq' = NoLocals.startSeq
            /\ prefix' = NoLocals.prefix
            /\ pos' = NoLocals.pos
       ELSE /\ pc' = N.at
            /\ i' = i
            /\ lineBuffer' = buf
            /\ style' = N.style
            /\ startValue' = N.startValue
            /\ endPos' = N.endPos
            /\ linePortion' = N.linePortion
            /\ startPortion' = N.startPortion
            /\ portionStyle' = N.portionStyle
            /\ startSeq' = N.startSeq
            /\ prefix' = N.prefix
            /\ pos' = N.pos
    /\ ret' = site
    /\ UNCHANGED <<inputs, sgrVars>>

Init ==
    /\ \E c \in Contexts(MaxCtxLines), h \in Heads, b \in Bodies, t \in LineEnds :
          doc = c \o h \o b \o t
    /\ \E t \in Trims :
          /\ startPos = t[1]
          /\ length = Len(doc) - t[1] - t[2]
    /\ length > 0
    /\ valueSeparate \in BOOLEAN
    /\ escapeSequences \in BOOLEAN
    /\ i = startPos
    /\ lineBuffer = <<>>
    /\ sink = <<>>
    /\ pc = "scan"
    /\ ret = "loop"
    /\ style = NoLocals.style
    /\ startValue = NoLocals.startValue
    /\ endPos = NoLocals.endPos
    /\ linePortion = NoLocals.linePortion
    /\ startPortion = NoLocals.startPortion
    /\ portionStyle = NoLocals.portionStyle
    /\ startSeq = NoLocals.startSeq
    /\ prefix = NoLocals.prefix
    /\ pos = NoLocals.pos
    /\ tokens = <<>>
    /\ seq = <<>>
    /\ result = -1

\* loop body for a character that does not end a line
ScanChar ==
    /\ pc = "scan"
    /\ i < startPos + length
    /\ ~AtEOL(i)
    /\ lineBuffer' = Append(lineBuffer, StylerAt(i))
    /\ i' = i + 1
    /\ UNCHANGED <<inputs, sink, pc, ret, locals, sgrVars>>

\* loop body for a character that ends a line: the line is colourised
ScanEOL ==
    /\ pc = "scan"
    /\ i < startPos + length
    /\ AtEOL(i)
    /\ LET buf == Append(lineBuffer, StylerAt(i))
       IN Apply(EnterColourise(buf, i, valueSeparate, escapeSequences), "loop", buf)

\* after the loop: the last line has no line end
LastLine ==
    /\ pc = "scan"
    /\ i = startPos + length
    /\ lineBuffer # <<>>
    /\ Apply(EnterColourise(lineBuffer, startPos + length - 1,
                            valueSeparate, escapeSequences), "final", lineBuffer)

\* after the loop: nothing is buffered
Finish ==
    /\ pc = "scan"
    /\ i = startPos + length
    /\ lineBuffer = <<>>
    /\ pc' = "done"
    /\ UNCHANGED <<inputs, i, lineBuffer, sink, ret, locals, sgrVars>>

CsiStep ==
    /\ pc = "csi"
    /\ Apply(CsiLoop(lineBuffer, Locals), ret, lineBuffer)

PrefixStep ==
    /\ pc = "prefix"
    /\ Apply(PrefixLoop(lineBuffer, Locals), ret, lineBuffer)

SeqStep ==
    /\ pc = "seq"
    /\ Apply(SeqEnd(lineBuffer, Locals), ret, lineBuffer)

Next ==
    \/ ScanChar
    \/ ScanEOL
    \/ LastLine
    \/ Finish
    \/ CsiStep
    \/ PrefixStep
    \/ SeqStep

Spec == Init /\ [][Next]_vars

\* The runs for the termination property: documents of short lines that take the
\* run through the line loop, the CSI loop and the charset-escape loop, in
\* every range and under every setting of the options.
FairDocs ==
    {
      <<97, 27, 40, 66, 120, 27, 91, 109>>,   \* "aESC(BxESC[m"
      <<27, 91, 48, 109, 116, 120, 116>>,     \* "ESC[0mtxt"
      <<27, 91, 51, 13, 113, 10, 122>>,       \* "ESC[3\rq\nz"
      <<102, 58, 49, 58, 50, 58>>,            \* "f:1:2:"
      <<120, 13, 10, 121, 10>>,               \* "x\r\ny\n"
      <<97, 27, 91, 75, 122>>,                \* "aESC[Kz"
      <<27, 91, 51, 49>>,                     \* "ESC[31"
      <<97, 98, 10, 27, 91, 72, 113>>         \* "ab\nESC[Hq"
    }

InitFair ==
    /\ doc \in FairDocs
    /\ \E t \in Trims :
          /\ startPos = t[1]
          /\ length = Len(doc) - t[1] - t[2]
    /\ length > 0
    /\ valueSeparate \in BOOLEAN
    /\ escapeSequences \in BOOLEAN
    /\ i = startPos
    /\ lineBuffer = <<>>
    /\ sink = <<>>
    /\ pc = "scan"
    /\ ret = "loop"
    /\ style = NoLocals.style
    /\ startValue = NoLocals.startValue
    /\ endPos = NoLocals.endPos
    /\ linePortion = NoLocals.linePortion
    /\ startPortion = NoLocals.startPortion
    /\ portionStyle = NoLocals.portionStyle
    /\ startSeq = NoLocals.startSeq
    /\ prefix = NoLocals.prefix
    /\ pos = NoLocals.pos
    /\ tokens = <<>>
    /\ seq = <<>>
    /\ result = -1

\* The code runs without interruption: a step that can be taken is taken.
FairSpec == InitFair /\ [][Next]_vars /\ WF_vars(Next)

-----------------------------------------------------------------------------
\* The SGR resolver on its own: StyleFromSequence applied to a parameter string.
\* The string is written from a list of tokens: a number (written in decimal),
\* a separator, or another parameter character; the terminator 'm' follows it.

MaxTokens == 5
MaxNumber == 300

SgrNumbers == {0, 1, 2, 5, 38, 48, 91, MaxNumber}

chQuestion == 63

Tok ==
    [k : {"num"}, v : SgrNumbers]
        \union [k : {"sep"}, v : {chSemi, chColon}]
        \union [k : {"chr"}, v : {chQuestion}]

\* no two numbers are adjacent: their digits would read as one number
NoAdjacent(s) ==
    \A k \in 1..(Len(s) - 1) : ~(s[k].k = "num" /\ s[k + 1].k = "num")

Num(n) == [k |-> "num", v |-> n]
Sep == [k |-> "sep", v |-> chSemi]

\* the indexed form and the bare number for every n, and true-colour forms
SgrForms ==
    {<<Num(38), Sep, Num(5), Sep, Num(n)>> : n \in 0..MaxNumber}
        \union {<<Num(n)>> : n \in 0..MaxNumber}
        \union {<<Num(38), Sep, Num(2), Sep, Num(r), Sep, Num(g), Sep, Num(b)>> :
                    r \in {0, 255}, g \in {0, 255}, b \in {0, 255}}

\* the decimal digits of n
RECURSIVE Decimal(_)
Decimal(n) ==
    IF n < 10 THEN <<chZero + n>> ELSE Append(Decimal(n \div 10), chZero + (n % 10))

RECURSIVE Render(_)
Render(ts) ==
    IF ts = <<>> THEN <<>>
    ELSE (IF Head(ts).k = "num" THEN Decimal(Head(ts).v) ELSE <<Head(ts).v>>)
         \o Render(Tail(ts))

InitSgr ==
    /\ \/ \E n \in 0..MaxTokens : tokens \in {s \in [1..n -> Tok] : NoAdjacent(s)}
       \/ tokens \in SgrForms
    /\ seq = Append(Render(tokens), chLowerM)
    /\ result = -1
    /\ pc = "sgr"
    /\ doc = <<>>
    /\ startPos = 0
    /\ length = 0
    /\ valueSeparate = FALSE
    /\ escapeSequences = FALSE
    /\ i = 0
    /\ lineBuffer = <<>>
    /\ sink = <<>>
    /\ ret = "loop"
    /\ style = NoLocals.style
    /\ startValue = NoLocals.startValue
    /\ endPos = NoLocals.endPos
    /\ linePortion = NoLocals.linePortion
    /\ startPortion = NoLocals.startPortion
    /\ portionStyle = NoLocals.portionStyle
    /\ startSeq = NoLocals.startSeq
    /\ prefix = NoLocals.prefix
    /\ pos = NoLocals.pos

ResolveSgr ==
    /\ pc = "sgr"
    /\ result' = StyleFromSequence(seq, 0)
    /\ pc' = "sgrdone"
    /\ UNCHANGED <<inputs, i, lineBuffer, sink, ret, locals, tokens, seq>>

NextSgr == ResolveSgr

SpecSgr == InitSgr /\ [][NextSgr]_vars

-----------------------------------------------------------------------------
\* The classifier on its own: RecogniseErrorListLine applied to one line.
\* A line is an optional first character followed by up to MaxPieces pieces
\* that are the building blocks of Perl, Bash and GCC-style messages.

MaxPieces == 5

ClsHeads == { <<>>, <<chPlus>> }

Pieces ==
    { <<120>>,              \* "x"
      sAt,                  \* " at "
      sLine,                \* " line "
      bashDiagnosticMark,   \* ": line "
      <<51>>,               \* "3"
      <<58, 51>>,           \* ":3"
      <<97, 98, 99, 100>>   \* "abcd"
    }

RECURSIVE Concat(_)
Concat(ps) == IF ps = <<>> THEN <<>> ELSE Head(ps) \o Concat(Tail(ps))

InitCls ==
    /\ \E h \in ClsHeads : \E n \in 0..MaxPieces : \E ps \in [1..n -> Pieces] :
          lineBuffer = h \o Concat(ps)
    /\ pc = "cls"
    /\ style = NoLocals.style
    /\ startValue = NoLocals.startValue
    /\ doc = <<>>
    /\ startPos = 0
    /\ length = 0
    /\ valueSeparate = FALSE
    /\ escapeSequences = FALSE
    /\ i = 0
    /\ sink = <<>>
    /\ ret = "loop"
    /\ endPos = NoLocals.endPos
    /\ linePortion = NoLocals.linePortion
    /\ startPortion = NoLocals.startPortion
    /\ portionStyle = NoLocals.portionStyle
    /\ startSeq = NoLocals.startSeq
    /\ prefix = NoLocals.prefix
    /\ pos = NoLocals.pos
    /\ tokens = <<>>
    /\ seq = <<>>
    /\ result = -1

\* startValue is -1 at the call, as in ColouriseErrorListLine
Classify ==
    /\ pc = "cls"
    /\ LET rec == RecogniseErrorListLine(lineBuffer, Len(lineBuffer), -1)
       IN /\ style' = rec.style
          /\ startValue' = rec.startValue
    /\ pc' = "clsdone"
    /\ UNCHANGED <<inputs, i, lineBuffer, sink, ret, endPos, linePortion, startPortion,
                   portionStyle, startSeq, prefix, pos, sgrVars>>

NextCls == Classify

SpecCls == InitCls /\ [][NextCls]_vars

\* Lines for the generic scan, built from the pieces of its three grammars:
\* GCC-style file:line[:col], Microsoft-style file(line[,col]) and CTags.
MaxScanPieces == 4

GccPieces ==
    { <<102, chColon, 51>>,     \* "f:3"
      <<chColon, 51>>,          \* ":3"
      <<chColon, chSpace>>,     \* ": "
      <<chSpace>>,              \* " "
      sWarningColon,            \* "warning:"
      sNoteColon,               \* "note:"
      <<chSlash>>,              \* "/"
      sWarningC }               \* ": warning C"

MsPieces ==
    { <<chTab>>,                                \* "\t"
      <<102, chLParen, 51, chRParen>>,          \* "f(3)"
      <<chLParen, 51, chComma, 52, chRParen>>,  \* "(3,4)"
      <<chSpace>>,                              \* " "
      <<chColon, chSpace>>,                     \* ": "
      <<69, 114, 114, 111, 114>>,               \* "Error"
      <<120, 121, 122>> }                       \* "xyz"

CtagsPieces ==
    { <<chLowerA, chTab>>,              \* "a\t"
      <<chTab>>,                        \* "\t"
      <<chSpace>>,                      \* " "
      <<51>>,                           \* "3"
      <<chSlash, chCaret>>,             \* "/^"
      <<chDollar, chSlash>>,            \* "$/"
      <<chTab, chLowerA, chSlash, chCaret>> }  \* "\ta/^"

ScanFamilies == { GccPieces, MsPieces, CtagsPieces }

InitScan ==
    /\ \E fam \in ScanFamilies : \E n \in 1..MaxScanPieces : \E ps \in [1..n -> fam] :
          lineBuffer = Concat(ps)
    /\ pc = "cls"
    /\ style = NoLocals.style
    /\ startValue = NoLocals.startValue
    /\ doc = <<>>
    /\ startPos = 0
    /\ length = 0
    /\ valueSeparate = FALSE
    /\ escapeSequences = FALSE
    /\ i = 0
    /\ sink = <<>>
    /\ ret = "loop"
    /\ endPos = NoLocals.endPos
    /\ linePortion = NoLocals.linePortion
    /\ startPortion = NoLocals.startPortion
    /\ portionStyle = NoLocals.portionStyle
    /\ startSeq = NoLocals.startSeq
    /\ prefix = NoLocals.prefix
    /\ pos = NoLocals.pos
    /\ tokens = <<>>
    /\ seq = <<>>
    /\ result = -1

NextScan == Classify

SpecScan == InitScan /\ [][NextScan]_vars

-----------------------------------------------------------------------------
\* Properties

\* a line is complete: the next step calls ColouriseErrorListLine on CurLine
\* with end position CurEnd
LineComplete ==
    /\ pc = "scan"
    /\ \/ (i < startPos + length /\ AtEOL(i))
       \/ (i = startPos + length /\ lineBuffer # <<>>)

CurLine == IF i < startPos + length THEN Append(lineBuffer, StylerAt(i)) ELSE lineBuffer

CurEnd == IF i < startPos + length THEN i ELSE startPos + length - 1

InLine == pc \in {"csi", "prefix", "seq"}

WholeDoc == startPos = 0 /\ length = Len(doc)

\* C1: every boundary passed to the sink lies in the range
\* [startPos, startPos + length - 1], and when the run has ended the last
\* boundary is the range's last character position.
C1_BoundariesInRange ==
    /\ \A k \in 1..Len(sink) :
          sink[k][1] >= startPos /\ sink[k][1] <= startPos + length - 1
    /\ pc = "done" => (sink # <<>> /\ sink[Len(sink)][1] = startPos + length - 1)

\* C2: the boundaries passed to the sink are non-decreasing in call order.
C2_BoundariesNonDecreasing ==
    \A k \in 1..(Len(sink) - 1) : sink[k][1] <= sink[k + 1][1]

\* "<removed line"
exDiffDeletion ==
    <<60, 114, 101, 109, 111, 118, 101, 100, 32, 108, 105, 110, 101>>

\* "+++ b/file.txt"
exDiffMessage ==
    <<43, 43, 43, 32, 98, 47, 102, 105, 108, 101, 46, 116, 120, 116>>

\* "main.c:12:5: error: x"
exGcc ==
    <<109, 97, 105, 110, 46, 99, 58, 49, 50, 58, 53, 58, 32, 101, 114, 114,
      111, 114, 58, 32, 120>>

\* "main.c:12:5: warning: x"
exGccWarning ==
    <<109, 97, 105, 110, 46, 99, 58, 49, 50, 58, 53, 58, 32, 119, 97, 114,
      110, 105, 110, 103, 58, 32, 120>>

\* "  File "a.py", line 3"
exPython ==
    <<32, 32, 70, 105, 108, 101, 32, 34, 97, 46, 112, 121, 34, 44, 32, 108,
      105, 110, 101, 32, 51>>

\* "foo.cs(10,2): error CS0001"
exMs ==
    <<102, 111, 111, 46, 99, 115, 40, 49, 48, 44, 50, 41, 58, 32, 101, 114,
      114, 111, 114, 32, 67, 83, 48, 48, 48, 49>>

\* "tag\tfile.c\t/^int main/"
exCtag ==
    <<116, 97, 103, 9, 102, 105, 108, 101, 46, 99, 9, 47, 94, 105, 110, 116,
      32, 109, 97, 105, 110, 47>>

Examples ==
    { <<exDiffDeletion, wxSTC_TERMINAL_DIFF_DELETION>>,
      <<exDiffMessage, wxSTC_TERMINAL_DIFF_MESSAGE>>,
      <<exGcc, wxSTC_TERMINAL_GCC>>,
      <<exGccWarning, wxSTC_TERMINAL_GCC_WARNING>>,
      <<exPython, wxSTC_TERMINAL_PYTHON>>,
      <<exMs, wxSTC_TERMINAL_MS>>,
      <<exCtag, wxSTC_TERMINAL_CTAG>> }

\* C3: each of the seven example lines, with or without a line end, is given
\* its stated category: a run over a document that is that line alone colours
\* it from its first character on with that category.
C3_PriorityExamples ==
    (pc = "done" /\ WholeDoc) =>
        \A ex \in Examples : \A t \in LineEnds :
            doc = ex[1] \o t => (sink # <<>> /\ sink[1][2] = ex[2])

\* a run over the warning example ended by CR LF has coloured all of it
\* GccWarning
C3_Witness ==
    /\ pc = "done"
    /\ doc = exGccWarning \o <<chCR, chLF>>
    /\ WholeDoc
    /\ ~valueSeparate
    /\ sink = << <<Len(doc) - 1, wxSTC_TERMINAL_GCC_WARNING>> >>

\* "ESC[31merrorESC[0m: bad"
exEscape ==
    <<27, 91, 51, 49, 109, 101, 114, 114, 111, 114, 27, 91, 48, 109, 58, 32,
      98, 97, 100>>

\* the categories of the spans a step adds to the sink
Emitted == [k \in 1..(Len(sink') - Len(sink)) |-> sink'[Len(sink) + k][2]]

\* the terminator of the CSI run a step has just passed
Terminator == lineBuffer[linePortion']

C4_Step ==
    /\ (LineComplete /\ pc' = "csi") =>
          /\ style' = RecogniseErrorListLine(CurLine, Len(CurLine), -1).style
          /\ portionStyle' = style'
          /\ Emitted = <<>>
    /\ (InLine /\ InLine') => style' = style
    /\ (pc = "csi" /\ InLine') => (portionStyle' = portionStyle /\ Emitted = <<>>)
    /\ (pc = "csi" /\ ~InLine') => Emitted = <<portionStyle>>
    /\ pc = "prefix" =>
          /\ portionStyle' = portionStyle
          /\ \A k \in 1..Len(Emitted) :
                Emitted[k] \in {portionStyle, wxSTC_TERMINAL_ESCSEQ_UNKNOWN}
          /\ (prefix # <<>> /\ ~Contains(prefix, ESC)) => Emitted = <<portionStyle>>
          /\ prefix = <<>> => Emitted = <<>>
    /\ (pc = "seq" /\ pc' = "csi") =>
          /\ Terminator = chLowerM =>
                /\ Emitted = <<wxSTC_TERMINAL_ESCSEQ>>
                /\ portionStyle' = StyleFromSequence(lineBuffer, startSeq + CSI_LEN)
          /\ Terminator = chUpperK =>
                /\ Emitted = <<wxSTC_TERMINAL_ESCSEQ>>
                /\ portionStyle' = portionStyle
          /\ Terminator \notin {chLowerM, chUpperK} =>
                /\ Emitted = <<wxSTC_TERMINAL_ESCSEQ_UNKNOWN>>
                /\ portionStyle' = style

C4_Example ==
    (pc = "done" /\ escapeSequences /\ WholeDoc /\ doc = exEscape) =>
        [k \in 1..Len(sink) |-> sink[k][2]] =
            <<wxSTC_TERMINAL_ESCSEQ, wxSTC_TERMINAL_ES_RED, wxSTC_TERMINAL_ESCSEQ,
              wxSTC_TERMINAL_DEFAULT>>

\* C4: with escape interpretation on, the running category of a line starts as
\* the line's base category and changes only at a terminated CSI run: a run
\* ended by 'm' is emitted as EscapeSequence and sets the running category to
\* the SGR resolver's result, a run ended by 'K' is emitted as EscapeSequence
\* and leaves it unchanged, a run with another terminator is emitted as
\* EscapeSequenceUnknown and resets it to the base category; the text between
\* runs and the tail of the line are emitted under the running category; the
\* example line yields EscapeSequence, Red, EscapeSequence, Default.
C4_RunningCategory == [][C4_Step]_vars /\ []C4_Example

\* the run over the example line has ended with its four spans
C4_Witness ==
    /\ pc = "done"
    /\ escapeSequences
    /\ doc = exEscape
    /\ sink = << <<4, wxSTC_TERMINAL_ESCSEQ>>, <<9, wxSTC_TERMINAL_ES_RED>>,
                 <<13, wxSTC_TERMINAL_ESCSEQ>>, <<18, wxSTC_TERMINAL_DEFAULT>> >>

\* ">ESC[0mtxt"
exCmdReset == <<62, 27, 91, 48, 109, 116, 120, 116>>

\* the CSI run just passed is ESC[0m
AfterSgr0 ==
    /\ pc = "csi"
    /\ linePortion >= 4
    /\ SubSeq(lineBuffer, linePortion - 3, linePortion) = CSI \o <<chZero, chLowerM>>

\* C5 as stated: after ESC[0m the text that follows is styled with the line's
\* base category, whatever it is.
C5_ResetToBase ==
    [][AfterSgr0 => (portionStyle = style /\ (~InLine' => Emitted = <<style>>))]_vars

\* C5 (amended): after ESC[0m the running category is Default, whatever the
\* line's base category is, and a tail that follows is emitted as Default.
C5_ResetToDefault ==
    [][AfterSgr0 => (/\ portionStyle = wxSTC_TERMINAL_DEFAULT
                     /\ (~InLine' => Emitted = <<wxSTC_TERMINAL_DEFAULT>>))]_vars

\* the run over a Cmd line with ESC[0m has ended: the text after the sequence
\* is Default while the line's base category is Cmd
C5_Witness ==
    /\ pc = "done"
    /\ escapeSequences
    /\ doc = exCmdReset
    /\ sink = << <<0, wxSTC_TERMINAL_CMD>>, <<4, wxSTC_TERMINAL_ESCSEQ>>,
                 <<7, wxSTC_TERMINAL_DEFAULT>> >>

\* the parameter tokens 38;5;n
Indexed(n) == <<Num(38), Sep, Num(5), Sep, Num(n)>>

\* C6: the quantisation maps exact palette colours to themselves: for each of
\* the 16 base RGB values the distance is 0 for that entry only and the search
\* returns the entry, so a 256-table index whose RGB equals a base colour
\* resolves to that colour's category; 38;5;196 and plain 91 both resolve to
\* BrightRed.
C6_ExactPalette ==
    pc = "sgrdone" =>
        /\ (Len(tokens) = 5 /\ tokens[5].k = "num" /\ tokens[5].v <= 255
                /\ tokens = Indexed(tokens[5].v)) =>
              LET encoded == rgb_from_ansi256(tokens[5].v)
              IN \A k \in 0..15 :
                    encoded = base_colours[k + 1] =>
                        /\ \A j \in 0..15 :
                              (distance(encoded, base_colours[j + 1]) = 0) <=> (j = k)
                        /\ NearestFrom(encoded, 0, DistMax, 0) = k
                        /\ result = base_colour_to_style[k + 1]
        /\ tokens \in {Indexed(196), <<Num(91)>>} =>
              result = wxSTC_TERMINAL_ES_BRIGHT_RED

\* 38;5;3 has been resolved: index 3 is the base colour 0xcdcd00, Brown
C6_Witness ==
    /\ pc = "sgrdone"
    /\ tokens = Indexed(3)
    /\ rgb_from_ansi256(3) = base_colours[4]
    /\ result = wxSTC_TERMINAL_ES_BROWN

\* the line is recognised by the generic scan as <filename>:<line>:
GccRecognised(line) ==
    /\ EarlyRule(line, Len(line)) = NoRule
    /\ GenericScan(line, Len(line), -1).state = "stGcc"

\* offset of the ':' after the file name: the first ':' not followed by a
\* backslash, a slash or a space
FileColon(line) ==
    Min({k \in 0..(Len(line) - 1) :
            /\ CharAt(line, k) = chColon
            /\ k + 1 < Len(line)
            /\ CharAt(line, k + 1) \notin {chBackslash, chSlash, chSpace}})

\* offset of the ':' that ends the line number
LineColon(line) ==
    Min({k \in (FileColon(line) + 2)..(Len(line) - 1) : CharAt(line, k) = chColon})

\* offset of the first character after the column digits
AfterColumn(line) ==
    Min({k \in (LineColon(line) + 1)..(Len(line) - 1) : ~Is0To9(CharAt(line, k))})

\* the offset just after the ':' that ends the column number, or the line
\* number when no ':' follows the column digits
GccValueStart(line) ==
    IF CharAt(line, AfterColumn(line)) = chColon THEN AfterColumn(line) + 1
    ELSE LineColon(line) + 1

C7_Step ==
    (/\ LineComplete
     /\ valueSeparate
     /\ ~(escapeSequences /\ Contains(CurLine, CSI))
     /\ GccRecognised(CurLine)) =>
        LET first == CurEnd - Len(CurLine) + 1
            valueStart == GccValueStart(CurLine)
            cat == RecogniseErrorListLine(CurLine, Len(CurLine), -1).style
        IN /\ valueStart >= 1 /\ valueStart <= Len(CurLine)
           /\ cat \in {wxSTC_TERMINAL_GCC, wxSTC_TERMINAL_GCC_WARNING,
                       wxSTC_TERMINAL_GCC_NOTE, wxSTC_TERMINAL_LUA}
           /\ sink' = sink \o << <<first + valueStart - 1, cat>>,
                                 <<first + Len(CurLine) - 1, wxSTC_TERMINAL_VALUE>> >>

\* C7: with value.separate on and escape interpretation not applying to the
\* line, a line recognised with a GCC-style file:line[:col]: prefix is emitted
\* as exactly two spans: offsets [0, valueStart) under the line's category and
\* [valueStart, line end) under Value, where valueStart is the offset just
\* after the ':' that ends the column number, or the line number when no ':'
\* follows the column digits.
C7_ValueSplit == [][C7_Step]_vars

\* the run over "main.c:12:5: error: x" has ended with the split after "5:"
C7_Witness ==
    /\ pc = "done"
    /\ valueSeparate
    /\ ~escapeSequences
    /\ doc = exGcc
    /\ WholeDoc
    /\ sink = << <<11, wxSTC_TERMINAL_GCC>>, <<20, wxSTC_TERMINAL_VALUE>> >>

\* one step of ColouriseErrorListLine from the locals L
StepLine(buf, L) ==
    CASE L.at = "csi" -> CsiLoop(buf, L)
      [] L.at = "prefix" -> PrefixLoop(buf, L)
      [] L.at = "seq" -> SeqEnd(buf, L)

\* the spans emitted from the locals L to the return
RECURSIVE RunFrom(_, _)
RunFrom(buf, L) ==
    L.out \o (IF L.at = "ret" THEN <<>> ELSE RunFrom(buf, StepLine(buf, L)))

\* the spans of a line that is a document of its own, under the run's options
RunLine(line) ==
    RunFrom(line, EnterColourise(line, Len(line) - 1, valueSeparate, escapeSequences))

Shift(spans, d) == [k \in 1..Len(spans) |-> <<spans[k][1] + d, spans[k][2]>>]

\* position of the last character of the line that starts at from
RECURSIVE LineEndFrom(_)
LineEndFrom(k) ==
    IF k >= startPos + length - 1 \/ AtEOL(k) THEN k ELSE LineEndFrom(k + 1)

\* the lines of the range from position from on, each coloured on its own
RECURSIVE SpansFrom(_)
SpansFrom(from) ==
    IF from >= startPos + length THEN <<>>
    ELSE LET e == LineEndFrom(from)
         IN Shift(RunLine(SubSeq(doc, from + 1, e + 1)), from) \o SpansFrom(e + 1)

\* C8: the categories and line-relative boundaries of the spans emitted for a
\* line depend only on the line's characters and the two options: the spans of
\* a run are, line after line, the spans each line gets as a document of its
\* own, moved to the line's position; so the same line gets the same spans
\* whatever precedes or follows it, a second run over the same range repeats
\* them, and a colour selected in one line does not reach the next.
C8_LineLocal == pc = "done" => sink = SpansFrom(startPos)

\* the run over a green line followed by "main.c:12:5: error: x" has ended: the
\* second line has the spans it has alone, moved by the first line's length
C8_Witness ==
    /\ pc = "done"
    /\ escapeSequences
    /\ valueSeparate
    /\ WholeDoc
    /\ \E c \in CtxLines :
          /\ doc = c \o exGcc
          /\ sink = << <<4, wxSTC_TERMINAL_ESCSEQ>>, <<Len(c) - 1, wxSTC_TERMINAL_ES_GREEN>>,
                       <<Len(c) + 11, wxSTC_TERMINAL_GCC>>,
                       <<Len(c) + 20, wxSTC_TERMINAL_VALUE>> >>

IsNumTok(ts, k) == k <= Len(ts) /\ ts[k].k = "num"
IsSepTok(ts, k) == k <= Len(ts) /\ ts[k].k = "sep"

\* the first token is an attribute code 0 to 9
LeadingAttribute(ts) == IsNumTok(ts, 1) /\ ts[1].v <= 9

\* index of the token that selects the colour: the first one, or the one after
\* a leading attribute code and its separator
ColourIndex(ts) == IF LeadingAttribute(ts) THEN 3 ELSE 1

\* the parameter tokens are not one of the supported shapes
Unsupported(ts) ==
    \/ ts = <<>>
    \/ ~IsNumTok(ts, 1)
    \/ LeadingAttribute(ts) /\ ~IsSepTok(ts, 2)
    \/ LET c == ColourIndex(ts)
       IN /\ IsNumTok(ts, c)
          /\ \/ ts[c].v = 38 /\ ~(/\ IsSepTok(ts, c + 1)
                                  /\ IsNumTok(ts, c + 2) /\ ts[c + 2].v = 5
                                  /\ IsSepTok(ts, c + 3)
                                  /\ IsNumTok(ts, c + 4))
             \/ ts[c].v = 48
             \/ ts[c].v >= 256

AnsiCategories == {base_colour_to_style[k] : k \in 1..16}

\* C9: for every SGR parameter string the resolver returns Default or one of
\* the 16 ANSI-colour categories, and it returns Default when the string is
\* not one of the supported shapes: empty parameters, a non-numeric first
\* token, an attribute code 0-9 not followed by a separator, 38 not followed
\* by ;5;<number> (so true colour 38;2;r;g;b too), background 48, or a bare
\* number of 256 or more.
C9_DegradesToDefault ==
    pc = "sgrdone" =>
        /\ result \in {wxSTC_TERMINAL_DEFAULT} \union AnsiCategories
        /\ Unsupported(tokens) => result = wxSTC_TERMINAL_DEFAULT

\* a background selection 48;5;1 has been resolved to Default
C9_Witness ==
    /\ pc = "sgrdone"
    /\ tokens = <<Num(48), Sep, Num(5), Sep, Num(1)>>
    /\ Unsupported(tokens)
    /\ result = wxSTC_TERMINAL_DEFAULT

\* the line begins with the characters p
HasPrefix(line, p) == \A k \in 1..Len(p) : k <= Len(line) /\ line[k] = p[k]

\* the line looks like a file-permission listing
PermissionListing(line) == HasPrefix(line, sDashRw) \/ HasPrefix(line, sDashRDash)

\* the category a step gives to the line it colourises
LineCategory == IF pc' = "csi" THEN style' ELSE Emitted[1]

C10_Step ==
    LineComplete =>
        LET line == CurLine
            first == CharAt(line, 0)
        IN /\ first = chGreater => LineCategory = wxSTC_TERMINAL_CMD
           /\ first = chLess => LineCategory = wxSTC_TERMINAL_DIFF_DELETION
           /\ first = chBang => LineCategory = wxSTC_TERMINAL_DIFF_CHANGED
           /\ first = chPlus =>
                 LineCategory = IF HasPrefix(line, sPlus3)
                                THEN wxSTC_TERMINAL_DIFF_MESSAGE
                                ELSE wxSTC_TERMINAL_DIFF_ADDITION
           /\ (first = chMinus /\ ~PermissionListing(line)) =>
                 LineCategory = IF HasPrefix(line, sDash3) THEN wxSTC_TERMINAL_DIFF_MESSAGE
                                ELSE IF HasPrefix(line, sDash2) THEN wxSTC_TERMINAL_DEFAULT
                                ELSE wxSTC_TERMINAL_DIFF_DELETION
           /\ PermissionListing(line) =>
                 /\ LineCategory \notin {wxSTC_TERMINAL_DIFF_DELETION,
                                         wxSTC_TERMINAL_DIFF_MESSAGE}
                 /\ LET other == <<chLowerZ>> \o Tail(line)
                    IN LineCategory = RecogniseErrorListLine(other, Len(other), -1).style

\* C10: a line whose first character is '>', '<', '!' or '+', or '-' when it
\* does not start with "-rw" or "-r-", is classified by its prefix alone:
\* '>' Cmd, '<' DiffDeletion, '!' DiffChanged, "+++ " DiffMessage and any other
\* '+' DiffAddition, "--- " DiffMessage, "-- " Default and any other '-'
\* DiffDeletion; a line starting with "-rw" or "-r-" is not decided by the dash
\* rule: it gets the category the later rules give it, the one it has with
\* another first character that no rule looks for.
C10_PrefixRules == [][C10_Step]_vars

\* the run over "-rw main.c:12:5: error: x" has ended: the line is Gcc
C10_Witness ==
    /\ pc = "done"
    /\ ~valueSeparate
    /\ WholeDoc
    /\ doc = sDashRw \o <<chSpace>> \o exGcc
    /\ sink = << <<Len(doc) - 1, wxSTC_TERMINAL_GCC>> >>

\* the CSI run at startSeq has no terminating byte in the line
Unterminated ==
    /\ pc = "seq"
    /\ \A k \in (startSeq + CSI_LEN)..(Len(lineBuffer) - 1) :
          ~(CharAt(lineBuffer, k) >= chAt /\ CharAt(lineBuffer, k) <= chTilde)

\* position of the last character of the line being colourised
LineLast == IF ret = "loop" THEN i ELSE startPos + length - 1

\* C11 as stated: an unterminated CSI run is emitted as EscapeSequenceUnknown
\* up to the end of the requested range, and no further span is emitted for
\* the line.
C11_ToRangeEnd ==
    [][Unterminated =>
          /\ sink' = Append(sink, <<startPos + length - 1, wxSTC_TERMINAL_ESCSEQ_UNKNOWN>>)
          /\ ~InLine']_vars

\* C11 (amended): an unterminated CSI run is emitted as EscapeSequenceUnknown
\* up to the last character of its line, which is the end of the range only
\* for the range's last line, and no further span is emitted for the line.
C11_ToLineEnd ==
    [][Unterminated =>
          /\ sink' = Append(sink, <<LineLast, wxSTC_TERMINAL_ESCSEQ_UNKNOWN>>)
          /\ ~InLine']_vars

\* the run over "ESC[3\rq\nz" has ended: the first line is unknown up to its
\* CR, and the two lines after it are coloured
C11_Witness ==
    /\ pc = "done"
    /\ escapeSequences
    /\ WholeDoc
    /\ doc = CSI \o <<51, chCR, 113, chLF, 122>>
    /\ sink = << <<3, wxSTC_TERMINAL_ESCSEQ_UNKNOWN>>, <<5, wxSTC_TERMINAL_DEFAULT>>,
                 <<6, wxSTC_TERMINAL_DEFAULT>> >>

\* position of the first character of the line being colourised
LineFirst == LineLast - Len(lineBuffer) + 1

\* the boundary before the k-th boundary of the sink after the step
BoundaryBefore(k) == IF k > 1 THEN sink'[k - 1][1] ELSE startPos - 1

\* the three characters that end at position b are ESC ( and B, 0, U or K
CharsetEscapeAt(b) ==
    LET off == b - LineFirst
    IN /\ off >= 2
       /\ CharAt(lineBuffer, off - 2) = chEsc
       /\ <<CharAt(lineBuffer, off - 1), CharAt(lineBuffer, off)>>
              \in {sParenB, sParen0, sParenU, sParenK}

\* C12: in the text before a CSI run an EscapeSequenceUnknown span is emitted
\* only for ESC immediately followed by "(B", "(0", "(U" or "(K", it covers
\* exactly those three characters, and the text before it is emitted under the
\* running category.
C12_CharsetEscapeOnly ==
    [][pc = "prefix" =>
          \A k \in (Len(sink) + 1)..Len(sink') :
              IF sink'[k][2] = wxSTC_TERMINAL_ESCSEQ_UNKNOWN
              THEN /\ CharsetEscapeAt(sink'[k][1])
                   /\ BoundaryBefore(k) = sink'[k][1] - 3
              ELSE sink'[k][2] = portionStyle]_vars

\* the 0-based offsets at which needle occurs in line
Occurrences(line, needle) ==
    {p \in 0..(Len(line) - Len(needle)) : SubSeq(line, p + 1, p + Len(needle)) = needle}

\* one of the rules tried before the Perl rule applies to the line
HigherThanPerl(line) ==
    \/ CharAt(line, 0) \in {chGreater, chLess, chBang, chPlus}
    \/ CharAt(line, 0) = chMinus /\ ~PermissionListing(line)
    \/ HasPrefix(line, sCf90)
    \/ HasPrefix(line, sFortcom)
    \/ Contains(line, sFileQuote) /\ Contains(line, sCommaLine)
    \/ Contains(line, sIn) /\ Contains(line, sOnLine)
    \/ HasPrefix(line, sError)
    \/ HasPrefix(line, sWarning)
    \/ Contains(line, sAtLine) /\ Contains(line, sFile)

\* some " at " ends at least n characters before some " line " starts
AtBeforeLine(line, n) ==
    \E a \in Occurrences(line, sAt) : \E l \in Occurrences(line, sLine) :
        l - (a + Len(sAt)) >= n

\* the first " at " ends at least n characters before the first " line " starts
FirstAtBeforeFirstLine(line, n) ==
    /\ Occurrences(line, sAt) # {}
    /\ Occurrences(line, sLine) # {}
    /\ Min(Occurrences(line, sLine)) - (Min(Occurrences(line, sAt)) + Len(sAt)) >= n

\* C13 as stated: when no rule 1-11 applies, a line is Perl exactly when it
\* contains " at " before " line " with at least 4 characters between the end
\* of " at " and the start of " line ".
C13_PerlFourBetween ==
    (pc = "clsdone" /\ ~HigherThanPerl(lineBuffer)) =>
        ((style = wxSTC_TERMINAL_PERL) <=> AtBeforeLine(lineBuffer, 4))

\* C13 (amended): when no rule 1-11 applies, a line is Perl exactly when its
\* first " at " ends at least one character before its first " line " starts.
C13_PerlOneBetween ==
    (pc = "clsdone" /\ ~HigherThanPerl(lineBuffer)) =>
        ((style = wxSTC_TERMINAL_PERL) <=> FirstAtBeforeFirstLine(lineBuffer, 1))

\* "x at x line 3" has been classified Perl with one character between
C13_Witness ==
    /\ pc = "clsdone"
    /\ lineBuffer = <<120>> \o sAt \o <<120>> \o sLine \o <<51>>
    /\ ~HigherThanPerl(lineBuffer)
    /\ ~AtBeforeLine(lineBuffer, 2)
    /\ style = wxSTC_TERMINAL_PERL

\* one of the rules tried before the Bash rule applies to the line
HigherThanBash(line) ==
    \/ HigherThanPerl(line)
    \/ FirstAtBeforeFirstLine(line, 1)
    \/ HasPrefix(line, sNetAt) /\ Contains(line, sColonLine)
    \/ HasPrefix(line, sLineCap) /\ Contains(line, sCommaFile)
    \/ HasPrefix(line, sLineLow) /\ Contains(line, sColumn)
    \/ HasPrefix(line, sTabAt) /\ Contains(line, <<chLParen>>) /\ Contains(line, sJava)
    \/ HasPrefix(line, sIncluded)
    \/ HasPrefix(line, sFrom)
    \/ HasPrefix(line, sNmake)
    \/ Contains(line, sWarningLnk)
    \/ Contains(line, sErrorLnk)

\* the occurrence of ": line " at offset m is followed by one or more digits
\* and then ':'
BashShapeAt(line, m) ==
    LET first == m + Len(bashDiagnosticMark)
    IN \E after \in (first + 1)..(Len(line) - 1) :
          /\ \A k \in first..(after - 1) : Is0To9(CharAt(line, k))
          /\ CharAt(line, after) = chColon

\* C14: when no rule 1-19 applies, a line is Bash exactly when some occurrence
\* of ": line " in it is immediately followed by one or more digits and then
\* ':'.
C14_BashAnyOccurrence ==
    (pc = "clsdone" /\ ~HigherThanBash(lineBuffer)) =>
        ((style = wxSTC_TERMINAL_BASH) <=>
            \E m \in Occurrences(lineBuffer, bashDiagnosticMark) : BashShapeAt(lineBuffer, m))

\* C15: in the form 38;5;n the final number must lie in 0..255: for n in that
\* range the result is the category of index n, and for n above 255 the
\* result is Default (n is not reduced modulo 256).
C15_IndexRange ==
    (pc = "sgrdone" /\ Len(tokens) = 5 /\ tokens[5].k = "num"
        /\ tokens = Indexed(tokens[5].v)) =>
        result = IF tokens[5].v <= 255 THEN style_from_colour_number(tokens[5].v)
                 ELSE wxSTC_TERMINAL_DEFAULT

\* the lowest index among the base colours at minimal distance from encoded
NearestBase(encoded) ==
    Min({k \in 0..15 :
            \A j \in 0..15 : distance(encoded, base_colours[k + 1])
                                <= distance(encoded, base_colours[j + 1])})

\* the category of index n as the statement gives it
ResolveAnsiIndex(n) ==
    IF n \in 30..37 THEN base_colour_to_style[(n - 30) + 1]
    ELSE IF n \in 90..97 THEN base_colour_to_style[(n - 90 + 8) + 1]
    ELSE base_colour_to_style[NearestBase(rgb_from_ansi256(n)) + 1]

\* the parameter tokens reach style_from_colour_number with the number n
ResolvesIndex(ts, n) ==
    \/ ts = Indexed(n)
    \/ ts = <<Num(n)>> /\ n > 9 /\ n # 38 /\ n # 48

\* C16: for n in 0..255 the category of index n is base category n-30 for n
\* in 30..37 and base category n-90+8 for n in 90..97, and for every other n
\* the category of the lowest-index base colour among those at minimal
\* distance from the 256-table entry n.
C16_ResolveAnsiIndex ==
    (pc = "sgrdone" /\ tokens # <<>> /\ tokens[Len(tokens)].k = "num"
        /\ tokens[Len(tokens)].v <= 255
        /\ ResolvesIndex(tokens, tokens[Len(tokens)].v)) =>
        result = ResolveAnsiIndex(tokens[Len(tokens)].v)

\* 38;5;208 has been resolved by the search: the orange 0xff8700 is nearest to
\* the base colour 3, Brown
C16_Witness ==
    /\ pc = "sgrdone"
    /\ tokens = Indexed(208)
    /\ NearestBase(rgb_from_ansi256(208)) = 3
    /\ result = wxSTC_TERMINAL_ES_BROWN

\* the parameter string of the tokens after a leading attribute code and its
\* separator, with the terminator
AfterAttribute(ts) == Append(Render(SubSeq(ts, 3, Len(ts))), chLowerM)

\* C17: a single leading attribute code is transparent: for an attribute
\* number 0..9 followed by a separator and a parameter string c whose first
\* token is not a number 0..9, the category is the one of c alone; an
\* attribute code not followed by a separator gives Default.
C17_AttributeTransparent ==
    (pc = "sgrdone" /\ LeadingAttribute(tokens)) =>
        /\ (IsSepTok(tokens, 2) /\ ~(IsNumTok(tokens, 3) /\ tokens[3].v <= 9)) =>
              result = StyleFromSequence(AfterAttribute(tokens), 0)
        /\ ~IsSepTok(tokens, 2) => result = wxSTC_TERMINAL_DEFAULT

\* 1;91 has been resolved to BrightRed, the category of 91 alone
C17_Witness ==
    /\ pc = "sgrdone"
    /\ tokens = <<Num(1), Sep, Num(91)>>
    /\ StyleFromSequence(<<chNine, chOne, chLowerM>>, 0) = wxSTC_TERMINAL_ES_BRIGHT_RED
    /\ result = wxSTC_TERMINAL_ES_BRIGHT_RED

\* escape interpretation applies to the line about to be colourised
Applies == escapeSequences /\ Contains(CurLine, CSI)

EscapeCategories ==
    {wxSTC_TERMINAL_ESCSEQ, wxSTC_TERMINAL_ESCSEQ_UNKNOWN} \union AnsiCategories

C18_Step ==
    /\ (LineComplete /\ ~Applies) =>
          /\ ~InLine'
          /\ Emitted # <<>>
          /\ \A k \in 1..Len(Emitted) : Emitted[k] \notin EscapeCategories
    /\ (LineComplete /\ Applies) => (pc' = "csi" /\ Emitted = <<>>)
    /\ InLine => \A k \in 1..Len(Emitted) : Emitted[k] # wxSTC_TERMINAL_VALUE

\* C18: escape interpretation applies to a line only when escape.sequences is
\* on and the line contains ESC[: in every other case no span of category
\* EscapeSequence, EscapeSequenceUnknown or an ANSI colour is emitted, even if
\* the text contains ESC; and when it applies, no Value span is emitted for
\* the line even if value.separate is on and valueStart is present.
C18_EscapesOnlyWhenEnabled == [][C18_Step]_vars

\* the run over the green GCC line has ended with value.separate on: the line
\* has a valueStart and no Value span
C18_Witness ==
    /\ pc = "done"
    /\ escapeSequences
    /\ valueSeparate
    /\ WholeDoc
    /\ doc \in CtxLines
    /\ RecogniseErrorListLine(doc, Len(doc), -1).startValue >= 0
    /\ sink = << <<4, wxSTC_TERMINAL_ESCSEQ>>, <<Len(doc) - 1, wxSTC_TERMINAL_ES_GREEN>> >>

\* position k holds an end-of-line boundary: LF, or CR not followed by LF
IsBoundary(k) ==
    \/ doc[k + 1] = chLF
    \/ doc[k + 1] = chCR /\ ~(k + 2 <= Len(doc) /\ doc[k + 2] = chLF)

\* the end positions of the lines of the range: the boundaries in it and, for
\* a tail without terminator, the range's last position
LineEndPositions ==
    {k \in startPos..(startPos + length - 1) :
        IsBoundary(k) \/ k = startPos + length - 1}

\* position of the first character of the line that ends at e
LineStartOf(e) ==
    LET before == {k \in startPos..(e - 1) : IsBoundary(k)}
    IN IF before = {} THEN startPos
       ELSE (CHOOSE x \in before : \A y \in before : x >= y) + 1

\* end position of the line a step returns from
ClosingEnd == IF LineComplete THEN CurEnd ELSE LineLast

C19_Step ==
    /\ i' >= i
    /\ LineComplete =>
          /\ CurEnd \in LineEndPositions
          /\ CurLine = SubSeq(doc, LineStartOf(CurEnd) + 1, CurEnd + 1)
    /\ (pc = "scan" /\ ~LineComplete) => sink' = sink
    /\ (pc = "scan" /\ ~LineComplete /\ i < startPos + length) => ~IsBoundary(i)
    /\ ((LineComplete \/ InLine) /\ ~InLine') =>
          /\ sink' # sink
          /\ sink'[Len(sink')][1] = ClosingEnd
          /\ IF IsBoundary(ClosingEnd)
             THEN pc' = "scan" /\ i' = ClosingEnd + 1 /\ lineBuffer' = <<>>
             ELSE pc' = "done" /\ ClosingEnd = startPos + length - 1

C19_AllLines ==
    pc = "done" =>
        \A e \in LineEndPositions : \E k \in 1..Len(sink) : sink[k][1] = e

\* C19: the range is split into lines at every LF and at every CR not
\* followed by LF; each line, with its terminator, is classified and emitted
\* once with the terminator's position as its end boundary, and a non-empty
\* tail without terminator once with the range's last position as its end
\* boundary.
C19_LineSplitting == [][C19_Step]_vars /\ []C19_AllLines

\* the run over a CR LF line, a CR line, an LF line and a tail has ended with
\* the four end boundaries
C19_Witness ==
    /\ pc = "done"
    /\ ~escapeSequences
    /\ ~valueSeparate
    /\ WholeDoc
    /\ \E c \in CtxLines :
          /\ doc = c \o CSI \o <<51, chCR, 113, chLF, 122>>
          /\ [k \in 1..Len(sink) |-> sink[k][1]] =
                <<Len(c) - 1, Len(c) + 3, Len(c) + 5, Len(c) + 6>>

\* the categories given to lines recognised by the GCC-style grammar
GccCategories ==
    {wxSTC_TERMINAL_GCC, wxSTC_TERMINAL_GCC_WARNING, wxSTC_TERMINAL_GCC_NOTE,
     wxSTC_TERMINAL_LUA}

\* C20: classify yields a valueStart other than -1 only with a category of the
\* GCC-style grammar (Gcc, GccWarning, GccNote, Lua); for every other
\* category, Default included, valueStart is -1, so value.separate never
\* splits a line that was not recognised as GCC-style.
C20_ValueStartOnlyForGcc ==
    [][LineComplete =>
          LET rec == RecogniseErrorListLine(CurLine, Len(CurLine), -1)
          IN /\ rec.startValue # -1 => rec.style \in GccCategories
             /\ (\E k \in 1..Len(Emitted) : Emitted[k] = wxSTC_TERMINAL_VALUE) =>
                   Emitted[1] \in GccCategories]_vars

\* the character after position p as the scan loop sees it: a space past the
\* end of the line
NextCh(line, p) == IF p + 1 < Len(line) THEN CharAt(line, p + 1) ELSE chSpace

\* at position p of the line a scan in its initial state leaves it
Leaves(line, p) ==
    \/ /\ CharAt(line, p) = chColon
       /\ NextCh(line, p) \notin {chBackslash, chSlash, chSpace}
    \/ /\ CharAt(line, p) = chLParen
       /\ NextCh(line, p) \in chOne..chNine
       /\ CharAt(line, 0) # chTab
    \/ /\ CharAt(line, p) = chTab
       /\ CharAt(line, 0) # chTab
       /\ \A q \in 0..(p - 1) : CharAt(line, q) # chSpace

\* the first position where the scan leaves its initial state, the length
\* of the line when it never does
LeavePos(line) ==
    LET ps == {p \in 0..(Len(line) - 1) : Leaves(line, p)}
    IN IF ps = {} THEN Len(line) ELSE Min(ps)

\* a ':' followed by a space stands before the point where the scan leaves
\* its initial state
LeadingColon(line) ==
    \E p \in 0..(LeavePos(line) - 1) :
        CharAt(line, p) = chColon /\ p + 1 < Len(line) /\ CharAt(line, p + 1) = chSpace

\* the state in which the generic scan of the line ends
FinalState(line) == GenericScan(line, Len(line), -1).state

TerminalStates == {"stGcc", "stMsVc", "stMsDotNet", "stCtags", "stCtagsStringDollar"}

\* the line has been classified, and by the generic scan
Scanned == pc = "clsdone" /\ EarlyRule(lineBuffer, Len(lineBuffer)) = NoRule

\* C21: a line whose generic scan ends in the GCC terminal state is Lua
\* exactly when a ':' followed by a space stood before the point where the
\* scan left its initial state, and Gcc, GccWarning or GccNote otherwise; a
\* line whose scan reaches no terminal state is Ms when that flag is set and
\* the line contains ": warning C", and Default otherwise.
C21_ScanResult ==
    Scanned =>
        /\ FinalState(lineBuffer) = "stGcc" =>
              /\ (style = wxSTC_TERMINAL_LUA) <=> LeadingColon(lineBuffer)
              /\ ~LeadingColon(lineBuffer) =>
                    style \in {wxSTC_TERMINAL_GCC, wxSTC_TERMINAL_GCC_WARNING,
                               wxSTC_TERMINAL_GCC_NOTE}
        /\ FinalState(lineBuffer) \notin TerminalStates =>
              style = IF LeadingColon(lineBuffer) /\ Contains(lineBuffer, sWarningC)
                      THEN wxSTC_TERMINAL_MS
                      ELSE wxSTC_TERMINAL_DEFAULT

\* ": f:3: " has been classified Lua
C21_Witness ==
    /\ Scanned
    /\ lineBuffer = <<chColon, chSpace, 102, chColon, 51, chColon, chSpace>>
    /\ FinalState(lineBuffer) = "stGcc"
    /\ style = wxSTC_TERMINAL_LUA

\* the category the GCC grammar gives when only the text from offset k on is
\* searched for "warning:" and "note:"
GccKindFrom(line, k) ==
    IF Contains(From(line, k), sWarningColon) THEN wxSTC_TERMINAL_GCC_WARNING
    ELSE IF Contains(From(line, k), sNoteColon) THEN wxSTC_TERMINAL_GCC_NOTE
    ELSE wxSTC_TERMINAL_GCC

\* C22: a line whose scan ends in the GCC terminal state without the
\* leading-colon flag is GccWarning when "warning:" occurs at or after the
\* character that ended the file:line[:col] prefix, GccNote when "note:" but
\* no "warning:" occurs there, and Gcc otherwise: the text before that point
\* has no influence.
C22_AfterPrefixOnly ==
    (Scanned /\ FinalState(lineBuffer) = "stGcc" /\ ~LeadingColon(lineBuffer)) =>
        style = GccKindFrom(lineBuffer, AfterColumn(lineBuffer))

\* the offset of the ')' that closes "(line" when the scan of the line reaches
\* the bracket state, -1 otherwise: the scan leaves its initial state at a
\* '(', and the first character after it that is neither a digit nor a space
\* is the ')'
BracketPos(line) ==
    LET p == LeavePos(line)
        r == Min({q \in (p + 1)..Len(line) :
                     ~Is0To9(CharAt(line, q)) /\ CharAt(line, q) # chSpace})
    IN IF p < Len(line) /\ CharAt(line, p) = chLParen /\ CharAt(line, r) = chRParen
       THEN r ELSE -1

\* the letters that stand at offset j of the line
AlphaRun(line, j) ==
    LET n == Min({m \in 0..Len(line) :
                     ~(CharAt(line, j + m) \in chUpperA..chUpperZ
                       \/ CharAt(line, j + m) \in chLowerA..chLowerZ)})
    IN SubSeq(line, j + 1, j + n)

\* the word is error, warning, fatal, catastrophic, note or remark in any
\* mix of upper and lower case
IsMsKind(w) ==
    \E m \in MsWords :
        /\ Len(m) = Len(w)
        /\ \A k \in 1..Len(w) : w[k] = m[k] \/ w[k] + 32 = m[k]

\* the line reached the bracket state and a character follows the ')'
AfterBracket ==
    /\ Scanned
    /\ BracketPos(lineBuffer) >= 0
    /\ BracketPos(lineBuffer) + 1 < Len(lineBuffer)

\* the claim as stated: the kind word is required after each of the three
\* followers
C23_WordAlways ==
    AfterBracket =>
        LET k == BracketPos(lineBuffer) + 1
            ch == CharAt(lineBuffer, k)
            chNext == NextCh(lineBuffer, k)
            matches ==
                \/ /\ (ch = chSpace /\ chNext = chColon) \/ (ch = chColon /\ chNext = chSpace)
                   /\ IsMsKind(AlphaRun(lineBuffer, k + 2))
                \/ /\ ch = chSpace /\ chNext # chColon
                   /\ IsMsKind(AlphaRun(lineBuffer, k + 1))
        IN /\ FinalState(lineBuffer) = "stMsVc" => matches
           /\ ~matches => FinalState(lineBuffer) = "stUnrecognized"

\* C23: after "file(line)" the bracket state leads to the Ms terminal when
\* the ')' is followed by " :" (whatever comes next), or by ": " or " " and
\* then a word that is, in any case, one of error, warning, fatal,
\* catastrophic, note, remark; otherwise the scan becomes Unrecognized and the
\* line is Ms only through the ": warning C" fallback.
C23_MsBracket ==
    AfterBracket =>
        LET k == BracketPos(lineBuffer) + 1
            ch == CharAt(lineBuffer, k)
            chNext == NextCh(lineBuffer, k)
            matches ==
                \/ ch = chSpace /\ chNext = chColon
                \/ /\ ch = chColon /\ chNext = chSpace
                   /\ IsMsKind(AlphaRun(lineBuffer, k + 2))
                \/ /\ ch = chSpace /\ chNext # chColon
                   /\ IsMsKind(AlphaRun(lineBuffer, k + 1))
        IN /\ matches => (FinalState(lineBuffer) = "stMsVc" /\ style = wxSTC_TERMINAL_MS)
           /\ ~matches =>
                 /\ FinalState(lineBuffer) = "stUnrecognized"
                 /\ style = IF LeadingColon(lineBuffer) /\ Contains(lineBuffer, sWarningC)
                           THEN wxSTC_TERMINAL_MS
                           ELSE wxSTC_TERMINAL_DEFAULT

\* "f(3) : xyz" has been classified Ms
C23_Witness ==
    /\ AfterBracket
    /\ lineBuffer = <<102, chLParen, 51, chRParen, chSpace, chColon, chSpace, 120, 121, 122>>
    /\ style = wxSTC_TERMINAL_MS

\* the offsets of the tabs of the line
Tabs(line) == {q \in 0..(Len(line) - 1) : CharAt(line, q) = chTab}

\* the offset of the second tab when the scan of the line reaches the file
\* state of the CTags grammar, -1 otherwise: the scan leaves its initial state
\* at a tab, and another tab follows
SecondTab(line) ==
    LET p == LeavePos(line)
    IN IF /\ p < Len(line)
          /\ CharAt(line, p) = chTab
          /\ \E q \in Tabs(line) : q > p
       THEN Min({q \in Tabs(line) : q > p})
       ELSE -1

\* at offset q stands what the file state reacts to: "/^", or a digit right
\* after a tab
FileStateEvent(line, q) ==
    \/ CharAt(line, q) = chSlash /\ CharAt(line, q + 1) = chCaret
    \/ CharAt(line, q - 1) = chTab /\ Is0To9(CharAt(line, q))

\* the offsets after the second tab where the file state reacts
FileStateEvents(line) ==
    {q \in (SecondTab(line) + 1)..(Len(line) - 1) : FileStateEvent(line, q)}

RECURSIVE StatesFrom(_, _, _)
StatesFrom(line, k, s) ==
    IF k < Len(line) /\ ~s.brk
    THEN <<s.state>> \o StatesFrom(line, k + 1, ScanStep(line, Len(line), k, s))
    ELSE <<s.state>>

ScanStates(line) ==
    StatesFrom(line, 0,
               [state |-> "stInitial",
                initialColonPart |-> FALSE,
                canBeCtags |-> ~(CharAt(line, 0) = chTab),
                startValue |-> -1,
                brk |-> FALSE])

\* C25: the scan is in its initial state up to the first position where it
\* leaves it (a ':' not followed by backslash, slash or space, a '(' followed
\* by 1-9 on a line not starting with a tab, or the first tab of a CTags
\* candidate) and never after it; once Unrecognized it stays Unrecognized; and
\* a line whose scan became Unrecognized is Default, or Ms through the
\* ": warning C" fallback, whatever follows in the line.
C25_Commits ==
    Scanned =>
        LET states == ScanStates(lineBuffer)
            left == LeavePos(lineBuffer)
        IN /\ \A n \in 1..Len(states) :
                 (states[n] = "stInitial") <=> (n - 1 <= left)
           /\ \A n \in 1..(Len(states) - 1) :
                 states[n] = "stUnrecognized" => states[n + 1] = "stUnrecognized"
           /\ (\E n \in 1..Len(states) : states[n] = "stUnrecognized") =>
                 /\ Len(states) = Len(lineBuffer) + 1
                 /\ style = IF LeadingColon(lineBuffer) /\ Contains(lineBuffer, sWarningC)
                           THEN wxSTC_TERMINAL_MS
                           ELSE wxSTC_TERMINAL_DEFAULT

\* ":3/f:3: " has been classified Default: the scan is Unrecognized from the
\* '/' on, and the rest of the line, "/f:3: ", is a GCC line by itself
C25_Witness ==
    /\ Scanned
    /\ lineBuffer = <<chColon, 51, chSlash, 102, chColon, 51, chColon, chSpace>>
    /\ ScanStates(lineBuffer)[4] = "stUnrecognized"
    /\ style = wxSTC_TERMINAL_DEFAULT
    /\ RecogniseErrorListLine(From(lineBuffer, 2), Len(lineBuffer) - 2, -1).style
          = wxSTC_TERMINAL_GCC

\* the text holds " | " or " |+" with nothing but spaces, '+' and digits
\* before it
ExcerptMark(line) ==
    \E k \in 0..(Len(line) - 3) :
        /\ CharAt(line, k) = chSpace
        /\ CharAt(line, k + 1) = chPipe
        /\ CharAt(line, k + 2) \in {chSpace, chPlus}
        /\ \A q \in 0..(k - 1) :
              CharAt(line, q) \in {chSpace, chPlus} \/ Is0To9(CharAt(line, q))

\* the text handed to the classifier ends in a line end character
Terminated(line) == line # <<>> /\ line[Len(line)] \in {chLF, chCR}

\* the text without its line end characters
Content(line) == SelectSeq(line, LAMBDA c : c # chCR /\ c # chLF)

C26_Step ==
    (LineComplete /\ LineCategory = wxSTC_TERMINAL_GCC_EXCERPT) =>
        /\ Terminated(CurLine) => ExcerptMark(CurLine)
        /\ (\A k \in 1..Len(Content(CurLine)) :
               Content(CurLine)[k] \in {chSpace, chPlus} \/ Is0To9(Content(CurLine)[k])) =>
              /\ ~Terminated(CurLine)
              /\ CurEnd = startPos + length - 1
              /\ pc' = "done"

\* C26: a line handed to the classifier with its line end ('\n' or '\r') is
\* GccExcerpt only if it holds " | " or " |+" preceded by nothing but spaces,
\* '+' and digits; a line of nothing but spaces, '+' and digits is GccExcerpt
\* only as the last line of the range, without a line end.
C26_ExcerptNeedsMark == [][C26_Step]_vars

\* the run over " 12" without a line end has ended: the line is GccExcerpt
C26_Witness ==
    /\ pc = "done"
    /\ WholeDoc
    /\ ~escapeSequences
    /\ doc = <<chSpace, 49, 50>>
    /\ sink = << <<2, wxSTC_TERMINAL_GCC_EXCERPT>> >>

C27_Step ==
    /\ pc' = "scan" => i' = i + 1
    /\ pc' # "scan" => i' = i
    /\ (pc = "seq" /\ ~Unterminated) =>
          /\ pc' = "csi"
          /\ linePortion' > linePortion
          /\ linePortion' > startSeq + CSI_LEN
          /\ SequenceEnd(CharAt(lineBuffer, linePortion' - 1))
          /\ \A k \in (startSeq + CSI_LEN)..(linePortion' - 2) :
                ~SequenceEnd(CharAt(lineBuffer, k))
    /\ Unterminated => ~InLine'
    /\ pc = "prefix" =>
          \/ pc' = "seq" /\ prefix' = prefix
          \/ pc' = "prefix" /\ Len(prefix') < Len(prefix)
    /\ (pc # "done" /\ pc' = "done") =>
          \/ Emitted # <<>>
          \/ pc = "scan" /\ lineBuffer = <<>> /\ i = startPos + length

\* C27: every run ends.  A step back into the line loop has advanced it by one
\* character and no other step moves it; a terminated CSI run makes the CSI
\* loop go on right after the run's terminating byte, which lies after the
\* point where the previous search started, and an unterminated run ends the
\* line; a step of the charset-escape loop leaves the loop or shortens the
\* prefix; and the run ends right after a span was emitted, or with nothing
\* buffered at the end of the range.
C27_Terminates == [][C27_Step]_vars /\ <>(pc = "done")

\* the run over "aESC(BxESC[m" under escape interpretation has ended after
\* passing the charset-escape loop and the CSI loop
C27_Witness ==
    /\ pc = "done"
    /\ escapeSequences
    /\ WholeDoc
    /\ doc = <<97, 27, 40, 66, 120, 27, 91, 109>>
    /\ Len(sink) >= 3
    /\ sink[Len(sink)][1] = Len(doc) - 1

====
